---------------------------- MODULE Spec2Model ----------------------------
(***************************************************************************)
(* A model of the factory simulation of src/factorySim/simutd.py: the      *)
(* strategy manager and its rate parameters, the disruption processes,     *)
(* the resource pools with the production pipeline, and the inventory      *)
(* ledger.                                                                 *)
(***************************************************************************)
EXTENDS Integers, Sequences, FiniteSets, TLC

(***************************************************************************)
(* Python floats.  The rate parameters are IEEE-754 binary64 numbers and   *)
(* the strategy effects multiply and divide them, so the model computes    *)
(* with binary64 values: a positive normal number is [m, e] with value     *)
(* m * 2^e and 2^52 <= m < 2^53, m held as four little-endian limbs of 14  *)
(* bits.  Every operation rounds to nearest, ties to even.                 *)
(***************************************************************************)
LIMB == 2^14
HALFLIMB == 2^13
MANT == 53

\* CHOOSE val \in {e(v) : v \in {x}} : TRUE is e(x), with x evaluated once.

\* Number of significant bits of a natural number below 2^31.
RECURSIVE BitLen(_)
BitLen(n) == IF n = 0 THEN 0 ELSE 1 + BitLen(n \div 2)

\* Index of the highest non-zero limb (0 when the number is zero).
BigTop(a) ==
    LET nz == {i \in 1..Len(a) : a[i] # 0}
    IN  IF nz = {} THEN 0 ELSE CHOOSE i \in nz : \A j \in nz : j <= i

BigBits(a) ==
    (CHOOSE val \in {IF t = 0 THEN 0 ELSE 14 * (t - 1) + BitLen(a[t]) : t \in {BigTop(a)}} : TRUE)

\* a padded with zero limbs (or cut, when the cut limbs are zero) to n limbs.
BigFit(a, n) == [i \in 1..n |-> IF i <= Len(a) THEN a[i] ELSE 0]

\* The limbs of a natural number below 2^31.
BigOfInt(n) == << n % LIMB, (n \div LIMB) % LIMB, n \div (LIMB * LIMB) >>

\* -1, 0, 1 as a < b, a = b, a > b (same length).
BigCmp(a, b) ==
    LET d == {i \in 1..Len(a) : a[i] # b[i]}
    IN  IF d = {} THEN 0
        ELSE LET k == CHOOSE i \in d : \A j \in d : j <= i
             IN  IF a[k] > b[k] THEN 1 ELSE -1

\* a - b for a >= b (same length), from limb i on with borrow br.
RECURSIVE BigSubAt(_, _, _, _)
BigSubAt(a, b, i, br) ==
    IF i > Len(a) THEN << >>
    ELSE (CHOOSE val \in {<< (d + LIMB) % LIMB >>
                            \o BigSubAt(a, b, i + 1, IF d < 0 THEN 1 ELSE 0) : d \in {a[i] - b[i] - br}} : TRUE)

BigSub(a, b) == BigSubAt(a, b, 1, 0)

\* a + 1 (same length; the caller leaves room), from limb i on with carry cy.
RECURSIVE BigIncAt(_, _, _)
BigIncAt(a, i, cy) ==
    IF i > Len(a) THEN << >>
    ELSE (CHOOSE val \in {<< t % LIMB >> \o BigIncAt(a, i + 1, t \div LIMB) : t \in {a[i] + cy}} : TRUE)

BigInc(a) == BigIncAt(a, 1, 1)

\* 2a + bit (same length; the caller leaves room).
BigDouble(a, bit) ==
    [i \in 1..Len(a) |->
        ((a[i] * 2) % LIMB) + (IF i = 1 THEN bit ELSE a[i-1] \div HALFLIMB)]

\* floor(a / 2) (same length).
BigHalf(a) ==
    [i \in 1..Len(a) |->
        (a[i] \div 2) + (IF i < Len(a) THEN (a[i+1] % 2) * HALFLIMB ELSE 0)]

\* The product of two four-limb numbers, eight limbs: column k sums the limb
\* products a[i] * b[j] with i + j = k + 1, and the carry runs upwards.
BigMulTerm(a, b, i, j) == IF i \in 1..4 /\ j \in 1..4 THEN a[i] * b[j] ELSE 0

BigMulCol(a, b, k) ==
    BigMulTerm(a, b, 1, k) + BigMulTerm(a, b, 2, k - 1)
        + BigMulTerm(a, b, 3, k - 2) + BigMulTerm(a, b, 4, k - 3)

RECURSIVE BigMulAt(_, _, _, _)
BigMulAt(a, b, k, cy) ==
    IF k > 8 THEN << >>
    ELSE (CHOOSE val \in {<< t % LIMB >> \o BigMulAt(a, b, k + 1, t \div LIMB) : t \in {BigMulCol(a, b, k) + cy}} : TRUE)

BigMul(a, b) == BigMulAt(a, b, 1, 0)

\* Limb i of a, zero outside a.
BigLimb(a, i) == IF i \in 1..Len(a) THEN a[i] ELSE 0

\* Shift left by s bits (same length; the caller leaves room).
BigShl(a, s) ==
    [i \in 1..Len(a) |->
        ((BigLimb(a, i - (s \div 14)) * 2^(s % 14)) % LIMB)
            + ((BigLimb(a, i - (s \div 14) - 1) * 2^(s % 14)) \div LIMB)]

\* Drop s >= 1 low bits: <<quotient, last dropped bit, whether an earlier
\* dropped bit (or st) was set>>.
BigShr(a, s, st) ==
    << [i \in 1..Len(a) |->
            (BigLimb(a, i + (s \div 14)) \div 2^(s % 14))
                + ((BigLimb(a, i + (s \div 14) + 1) % 2^(s % 14)) * 2^(14 - (s % 14)))],
       (a[((s - 1) \div 14) + 1] \div 2^((s - 1) % 14)) % 2,
       \/ st
       \/ a[((s - 1) \div 14) + 1] % 2^((s - 1) % 14) # 0
       \/ \E i \in 1..((s - 1) \div 14) : a[i] # 0 >>

\* q rounded up when the dropped bits say so (rb the first dropped bit, st
\* whether a later one was set), with exponent e: ties go to the even q.
FltRoundUp(q, rb, st, e) ==
    (CHOOSE val \in {IF BigBits(q1) > MANT
                     THEN [m |-> BigHalf(q1), e |-> e + 1]
                     ELSE [m |-> q1, e |-> e] : q1 \in {IF rb = 1 /\ (st \/ q[1] % 2 = 1) THEN BigInc(q) ELSE q}} : TRUE)

\* The binary64 nearest to big * 2^e (plus a non-zero tail below the last
\* bit when st), big > 0: round to nearest, ties to even.
FltRoundN(big, e, st, n) ==
    IF n <= MANT
    THEN [m |-> BigShl(BigFit(big, 4), MANT - n), e |-> e - (MANT - n)]
    ELSE (CHOOSE val \in {FltRoundUp(BigFit(r[1], 4), r[2], r[3], e + (n - MANT)) : r \in {BigShr(big, n - MANT, st)}} : TRUE)

FltRound(big, e, st) ==
    (CHOOSE val \in {FltRoundN(b, e, st, n) : b \in {big}, n \in {BigBits(big)}} : TRUE)

\* float(n) for an integer 0 < n < 2^31.
FltInt(n) == FltRound(BigOfInt(n), 0, FALSE)

\* x * y.
FltMul(x, y) ==
    (CHOOSE val \in {FltRound(BigMul(a.m, b.m), a.e + b.e, FALSE) : a \in {x}, b \in {y}} : TRUE)

\* One step of long division by d: from <<remainder, quotient>> the next
\* quotient bit, the remainder doubled for the step after.
FltDivStep(s, d) ==
    (CHOOSE val \in {IF BigCmp(t[1], d) >= 0
                    THEN << BigDouble(BigSub(t[1], d), 0), BigDouble(t[2], 1) >>
                    ELSE << BigDouble(t[1], 0), BigDouble(t[2], 0) >> : t \in {s}} : TRUE)

\* k steps of long division, halving k so the evaluation stays shallow.
RECURSIVE FltDivBits(_, _, _)
FltDivBits(s, d, k) ==
    IF k = 0 THEN s
    ELSE IF k = 1 THEN FltDivStep(s, d)
    ELSE (CHOOSE val \in {FltDivBits(h, d, k - (k \div 2)) : h \in {FltDivBits(s, d, k \div 2)}} : TRUE)

\* x / y: 56 quotient bits, a remainder left over as the tail below them.
FltDiv(x, y) ==
    CHOOSE val \in
        {CHOOSE q \in {FltRound(qr[2], a.e - b.e - 55, BigTop(qr[1]) # 0) :
                          qr \in {FltDivBits(<< BigFit(a.m, 5), BigFit(<<0>>, 5) >>,
                                             BigFit(b.m, 5), 56)}} : TRUE
           : a \in {x}, b \in {y}} : TRUE

\* The float a decimal literal num/den denotes, such as 0.7 = 7/10.
FltLit(num, den) == FltDiv(FltInt(num), FltInt(den))

\* 0.0, the one float that is not a normal number.
FltZero == [m |-> << 0, 0, 0, 0 >>, e |-> 0]

\* a + b (same length; the caller leaves room), from limb i on with carry cy.
RECURSIVE BigAddAt(_, _, _, _)
BigAddAt(a, b, i, cy) ==
    IF i > Len(a) THEN << >>
    ELSE (CHOOSE val \in {<< t % LIMB >> \o BigAddAt(a, b, i + 1, t \div LIMB) : t \in {a[i] + b[i] + cy}} : TRUE)

\* x + y for x.e >= y.e, both positive: y's bits far below x's last bit only
\* say that the sum lies above x.
FltAddOrdered(x, y) ==
    IF x.e - y.e > 56
    THEN FltRound(BigShl(BigFit(x.m, 8), 2), x.e - 2, TRUE)
    ELSE FltRound(BigAddAt(BigShl(BigFit(x.m, 8), x.e - y.e), BigFit(y.m, 8), 1, 0),
                  y.e, FALSE)

\* x + y for floats x, y >= 0.
FltAdd(x, y) ==
    (CHOOSE val \in {IF a = FltZero THEN b
                       ELSE IF b = FltZero THEN a
                       ELSE IF a.e >= b.e THEN FltAddOrdered(a, b)
                       ELSE FltAddOrdered(b, a) : a \in {x}, b \in {y}} : TRUE)

\* x - y for floats x >= y > 0: y's bits far below x's last bit only say
\* that the difference lies below x.
FltSub(x, y) ==
    IF x = y THEN FltZero
    ELSE IF x.e - y.e > 56
    THEN FltRound(BigSub(BigShl(BigFit(x.m, 8), 2), BigFit(<<1>>, 8)), x.e - 2, TRUE)
    ELSE FltRound(BigSub(BigShl(BigFit(x.m, 8), x.e - y.e), BigFit(y.m, 8)), y.e, FALSE)

\* x < y for floats x, y >= 0.
FltLt(x, y) ==
    IF y = FltZero THEN FALSE
    ELSE IF x = FltZero THEN TRUE
    ELSE x.e < y.e \/ (x.e = y.e /\ BigCmp(x.m, y.m) < 0)

(***************************************************************************)
(* A Python number is an int or a float: k is "i" and i the int, or k is   *)
(* "f" and m, e the binary64.  Arithmetic on two ints is exact, with a     *)
(* float operand it is float arithmetic, and true division always gives a  *)
(* float; comparisons are by value.                                        *)
(***************************************************************************)
I(n) == [k |-> "i", i |-> n, m |-> << >>, e |-> 0]
Fl(x) == [k |-> "f", i |-> 0, m |-> x.m, e |-> x.e]
F(num, den) == Fl(FltLit(num, den))

NumToFlt(x) ==
    IF x.k = "f" THEN [m |-> x.m, e |-> x.e]
    ELSE IF x.i = 0 THEN FltZero ELSE FltInt(x.i)

NumMul(x, y) ==
    (CHOOSE val \in {IF a.k = "i" /\ b.k = "i" THEN I(a.i * b.i)
            ELSE IF NumToFlt(a) = FltZero \/ NumToFlt(b) = FltZero THEN Fl(FltZero)
            ELSE Fl(FltMul(NumToFlt(a), NumToFlt(b))) : a \in {x}, b \in {y}} : TRUE)

NumDiv(x, y) ==
    (CHOOSE val \in {IF NumToFlt(a) = FltZero THEN Fl(FltZero)
            ELSE Fl(FltDiv(NumToFlt(a), NumToFlt(b))) : a \in {x}, b \in {y}} : TRUE)

NumAdd(x, y) ==
    (CHOOSE val \in {IF a.k = "i" /\ b.k = "i" THEN I(a.i + b.i)
            ELSE Fl(FltAdd(NumToFlt(a), NumToFlt(b))) : a \in {x}, b \in {y}} : TRUE)

\* x - y for x >= y >= 0.
NumSub(x, y) ==
    CHOOSE val \in {IF a.k = "i" /\ b.k = "i" THEN I(a.i - b.i)
                    ELSE IF NumToFlt(b) = FltZero THEN Fl(NumToFlt(a))
                    ELSE Fl(FltSub(NumToFlt(a), NumToFlt(b)))
                       : a \in {x}, b \in {y}} : TRUE

NumLt(x, y) ==
    (CHOOSE val \in {IF a.k = "i" /\ b.k = "i" THEN a.i < b.i
            ELSE FltLt(NumToFlt(a), NumToFlt(b)) : a \in {x}, b \in {y}} : TRUE)

NumEq(x, y) ==
    (CHOOSE val \in {IF a.k = b.k THEN a = b ELSE NumToFlt(a) = NumToFlt(b) : a \in {x}, b \in {y}} : TRUE)

NumLe(x, y) == NumLt(x, y) \/ NumEq(x, y)

\* int(x) for a float x >= 0 below 2^31: the fraction is dropped.
FltTrunc(x) ==
    IF x = FltZero \/ x.e <= -56 THEN 0
    ELSE IF x.e >= 0 THEN x.m[1] + x.m[2] * LIMB + x.m[3] * LIMB * LIMB
    ELSE (CHOOSE val \in {q[1] + q[2] * LIMB + q[3] * LIMB * LIMB : q \in {BigShr(x.m, -x.e, FALSE)[1]}} : TRUE)

\* int(x).
NumInt(x) == IF x.k = "i" THEN x.i ELSE FltTrunc(NumToFlt(x))

(***************************************************************************)
(* The program's constants and tables.                                     *)
(***************************************************************************)
INIT_NUM_CNC_MACHINES == 5
INIT_NUM_ASSEMBLY_STATIONS == 4
NUM_QC_STATIONS == 3
INIT_NUM_WORKERS == 12
INITIAL_INVENTORY == 80
INITIAL_RAW_MATERIALS == 500
QC_INSPECTION_TIME == 15
PARTS_PER_PRODUCT == 3
NORMAL_ORDER_RATE == 25
DELIVERY_TIME == 2 * 24 * 60
RAW_MATERIAL_COST == 70
FINISHED_PRODUCT_VALUE == 590

\* list(AdaptationStrategy): a strategy's index is its place here, from 0.
StrategyList ==
    << "PREVENTIVE_MAINTENANCE", "FLEXIBLE_WORKFORCE", "JUST_IN_TIME_REPLENISHMENT",
       "SUPPLIER_DIVERSIFICATION", "OVERTIME_POLICY", "QUALITY_MONITORING",
       "KPI_MONITORING", "MODULAR_REPAIR_KITS", "OUTSOURCING", "LEAN_MANUFACTURING",
       "PEAK_LOAD_OPTIMIZATION", "INVENTORY_LIQUIDATION",
       "PURCHASE_CNC_MACHINE", "SELL_CNC_MACHINE", "HIRE_WORKERS", "REDUCE_WORKFORCE",
       "EMERGENCY_MATERIALS", "UPGRADE_ASSEMBLY", "INSTALL_BACKUP_GENERATOR",
       "EXPEDITE_MAINTENANCE", "BULK_ORDER_MATERIALS", "CANCEL_PENDING_ORDERS",
       "REALLOCATE_WORKERS", "SCHEDULE_OVERTIME" >>

AdaptationStrategy == {StrategyList[i] : i \in 1..Len(StrategyList)}

ONE_TIME_STRATEGIES ==
    { "PURCHASE_CNC_MACHINE", "SELL_CNC_MACHINE", "HIRE_WORKERS", "REDUCE_WORKFORCE",
      "EMERGENCY_MATERIALS", "UPGRADE_ASSEMBLY", "INSTALL_BACKUP_GENERATOR",
      "EXPEDITE_MAINTENANCE", "BULK_ORDER_MATERIALS", "CANCEL_PENDING_ORDERS",
      "REALLOCATE_WORKERS", "SCHEDULE_OVERTIME" }

\* The index list(AdaptationStrategy).index(strategy).
StrategyIndex(strategy) == (CHOOSE i \in 1..Len(StrategyList) : StrategyList[i] = strategy) - 1

\* StrategyCosts.IMPLEMENTATION
IMPLEMENTATION ==
    [ PREVENTIVE_MAINTENANCE |-> 25000, FLEXIBLE_WORKFORCE |-> 18000,
      JUST_IN_TIME_REPLENISHMENT |-> 20000, SUPPLIER_DIVERSIFICATION |-> 35000,
      OVERTIME_POLICY |-> 5000, QUALITY_MONITORING |-> 42000, KPI_MONITORING |-> 25000,
      MODULAR_REPAIR_KITS |-> 18000, OUTSOURCING |-> 30000, LEAN_MANUFACTURING |-> 38000,
      PEAK_LOAD_OPTIMIZATION |-> 15000, INVENTORY_LIQUIDATION |-> 8000,
      PURCHASE_CNC_MACHINE |-> 150000, SELL_CNC_MACHINE |-> 5000, HIRE_WORKERS |-> 15000,
      REDUCE_WORKFORCE |-> 30000, EMERGENCY_MATERIALS |-> 40000, UPGRADE_ASSEMBLY |-> 75000,
      INSTALL_BACKUP_GENERATOR |-> 55000, EXPEDITE_MAINTENANCE |-> 25000,
      BULK_ORDER_MATERIALS |-> 80000, CANCEL_PENDING_ORDERS |-> 20000,
      REALLOCATE_WORKERS |-> 5000, SCHEDULE_OVERTIME |-> 18000 ]

\* StrategyCosts.WEEKLY
WEEKLY ==
    [ s \in AdaptationStrategy |->
        CASE s = "PREVENTIVE_MAINTENANCE" -> 625
          [] s = "FLEXIBLE_WORKFORCE" -> 300
          [] s = "JUST_IN_TIME_REPLENISHMENT" -> 300
          [] s = "SUPPLIER_DIVERSIFICATION" -> 450
          [] s = "OVERTIME_POLICY" -> 0
          [] s = "QUALITY_MONITORING" -> 550
          [] s = "KPI_MONITORING" -> 400
          [] s = "MODULAR_REPAIR_KITS" -> 250
          [] s = "OUTSOURCING" -> 250
          [] s = "LEAN_MANUFACTURING" -> 450
          [] s = "PEAK_LOAD_OPTIMIZATION" -> 350
          [] s = "INVENTORY_LIQUIDATION" -> 200
          [] OTHER -> 0 ]

\* StrategyDurations.DURATION as the class defines it, in minutes.
DEFAULT_DURATION ==
    [ s \in AdaptationStrategy |->
        CASE s = "PREVENTIVE_MAINTENANCE" -> 14 * 24 * 60
          [] s = "FLEXIBLE_WORKFORCE" -> 21 * 24 * 60
          [] s = "JUST_IN_TIME_REPLENISHMENT" -> 30 * 24 * 60
          [] s = "SUPPLIER_DIVERSIFICATION" -> 45 * 24 * 60
          [] s = "OVERTIME_POLICY" -> 5 * 24 * 60
          [] s = "QUALITY_MONITORING" -> 30 * 24 * 60
          [] s = "KPI_MONITORING" -> 30 * 24 * 60
          [] s = "MODULAR_REPAIR_KITS" -> 60 * 24 * 60
          [] s = "OUTSOURCING" -> 10 * 24 * 60
          [] s = "LEAN_MANUFACTURING" -> 60 * 24 * 60
          [] s = "PEAK_LOAD_OPTIMIZATION" -> 14 * 24 * 60
          [] s = "INVENTORY_LIQUIDATION" -> 7 * 24 * 60
          [] OTHER -> 0 ]

(***************************************************************************)
(* The state.  The module-level globals and the factory's attributes keep  *)
(* their names.  queue is the simulation environment's event queue; last   *)
(* records the step just taken and what it returned.                       *)
(***************************************************************************)
VARIABLES
    now, queue, procs, last, cmds, fired, flaws, trip,
    adaptation_strategies, strategy_implementation_dates, strategy_expiration_times,
    strategy_weekly_costs, DURATION,
    CNC_FAILURE_CHANCE, SUPPLY_CHAIN_ISSUE_CHANCE, QUALITY_ISSUE_CHANCE,
    ASSEMBLY_TIME, CNC_PROCESSING_TIME, POWER_OUTAGE_CHANCE, defect_rate,
    costs, revenue, liquidation_revenue,
    raw_materials, parts_inventory, finished_products, backlog,
    total_orders, fulfilled_orders, cancelled_orders,
    operational_cnc_machines, available_workers, current_order_rate,
    supply_chain_disrupted, has_quality_issue, power_outage, order_cancellation_active,
    maintenance_events, total_downtime, mtbf, mttr, last_failure_time, repair_times,
    NUM_CNC_MACHINES, NUM_ASSEMBLY_STATIONS, NUM_WORKERS,
    resources, cnc_machines, assembly_stations, qc_stations, workers,
    cnc_temperatures, cnc_vibrations,
    active_cnc_requests, active_worker_requests, active_qc_requests,
    daily_production, total_inspected, defects_found, false_negatives, false_positives,
    paused, thread

kernelVars == << now, queue, procs, last, cmds, fired, flaws, trip >>
stratVars ==
    << adaptation_strategies, strategy_implementation_dates, strategy_expiration_times,
       strategy_weekly_costs, DURATION >>
rateVars ==
    << CNC_FAILURE_CHANCE, SUPPLY_CHAIN_ISSUE_CHANCE, QUALITY_ISSUE_CHANCE,
       ASSEMBLY_TIME, CNC_PROCESSING_TIME, POWER_OUTAGE_CHANCE, defect_rate >>
finVars == << costs, revenue, liquidation_revenue >>
ledgerVars ==
    << raw_materials, parts_inventory, finished_products, backlog,
       total_orders, fulfilled_orders, cancelled_orders >>
statusVars ==
    << operational_cnc_machines, available_workers, current_order_rate,
       supply_chain_disrupted, has_quality_issue, power_outage,
       order_cancellation_active >>
maintVars ==
    << maintenance_events, total_downtime, mtbf, mttr, last_failure_time, repair_times >>
poolVars ==
    << NUM_CNC_MACHINES, NUM_ASSEMBLY_STATIONS, NUM_WORKERS,
       resources, cnc_machines, assembly_stations, qc_stations, workers,
       cnc_temperatures, cnc_vibrations,
       active_cnc_requests, active_worker_requests, active_qc_requests >>
countVars ==
    << daily_production, total_inspected, defects_found, false_negatives,
       false_positives >>

\* paused is the factory's flag; thread is the state of the thread
\* loop_start() started, the one that calls on_mqtt_message: "running",
\* "stopped" by loop_stop() and sys.exit(0), or ended by an exception that
\* "raised" out of the callback.
controlVars == << paused, thread >>

vars ==
    << kernelVars, stratVars, rateVars, finVars, ledgerVars, statusVars, maintVars,
       poolVars, countVars, controlVars >>

(***************************************************************************)
(* Dictionaries keep their keys in insertion order, as Python's do: a      *)
(* sequence of [key, val].                                                 *)
(***************************************************************************)
DictHas(d, key) == \E i \in 1..Len(d) : d[i].key = key

DictGet(d, key) == d[CHOOSE i \in 1..Len(d) : d[i].key = key].val

DictSet(d, key, val) ==
    IF DictHas(d, key)
    THEN [i \in 1..Len(d) |-> IF d[i].key = key THEN [key |-> key, val |-> val] ELSE d[i]]
    ELSE Append(d, [key |-> key, val |-> val])

DictDel(d, key) == SelectSeq(d, LAMBDA e : e.key # key)

(***************************************************************************)
(* The simulation environment.  queue holds the scheduled events in the    *)
(* order the environment processes them: by time, then priority (0 for a   *)
(* process's start, 1 for everything else), then order of scheduling.      *)
(* procs holds the processes: the function each one runs, where it is in   *)
(* it (pc) and its local variables.                                        *)
(***************************************************************************)
URGENT == 0
NORMAL == 1

\* Event e is processed no later than a newly scheduled ev.
EventBefore(e, ev) == NumLt(e.t, ev.t) \/ (NumEq(e.t, ev.t) /\ e.pr <= ev.pr)

Schedule(q, ev) ==
    (CHOOSE val \in {SubSeq(q, 1, n) \o << ev >> \o SubSeq(q, n + 1, Len(q)) : n \in {Cardinality({i \in 1..Len(q) : EventBefore(q[i], ev)})}} : TRUE)

\* env.process(generator): the new process starts when its start event is
\* processed.
Process(s, rec) ==
    (CHOOSE val \in {[u EXCEPT !.procs = Append(@, rec),
                      !.queue = Schedule(@, [t |-> u.now, pr |-> URGENT, k |-> "init",
                                             p |-> Len(u.procs) + 1])] : u \in {s}} : TRUE)

\* yield env.timeout(delay) in process p, which then waits at pc.
Timeout(s, p, delay, pc) ==
    (CHOOSE val \in {[u EXCEPT !.procs[p].pc = pc,
                      !.queue = Schedule(@, [t |-> t, pr |-> NORMAL, k |-> "timeout",
                                             p |-> p])] : u \in {s}, t \in {NumAdd(s.now, delay)}} : TRUE)

\* Process p returns.
Return(s, p) == [s EXCEPT !.procs[p].pc = "done"]

\* simpy.Resource(env, capacity): a new pool object with no users, made for
\* the attribute pool.  users and put_queue hold requests [p, slot]: the
\* request process p keeps in its variable slot.  grants counts the requests
\* the object has granted; it is history only.
NewResource(pool, capacity) ==
    [pool |-> pool, capacity |-> capacity, users |-> << >>, put_queue |-> << >>,
     grants |-> 0]

\* Resource._trigger_put: the request at the head of the queue, and no
\* other, becomes a user if the object has a free slot; its event is
\* scheduled.
trigger_put(s, res) ==
    CHOOSE val \in
        {IF u.resources[res].put_queue # << >>
            /\ Len(u.resources[res].users) < u.resources[res].capacity
         THEN [u EXCEPT
                 !.resources[res].users = Append(@, Head(u.resources[res].put_queue)),
                 !.resources[res].put_queue = Tail(@),
                 !.resources[res].grants = @ + 1,
                 !.queue = Schedule(@, [t |-> u.now, pr |-> NORMAL, k |-> "request",
                                        p |-> Head(u.resources[res].put_queue).p,
                                        slot |-> Head(u.resources[res].put_queue).slot])]
         ELSE u
           : u \in {s}} : TRUE

\* slot = resource.request(), the resource being the pool object res.
Request(s, p, slot, res) ==
    trigger_put([s EXCEPT !.procs[p][slot] = res,
                          !.resources[res].put_queue = Append(@, [p |-> p, slot |-> slot])],
                res)

\* A release that takes the request out of the users and serves the queue
\* of the newest pool object, whichever object the request was made on.
ReleaseElsewhere(s, p, slot) ==
    CHOOSE val \in
        {[u EXCEPT
            !.resources[res].users = SelectSeq(@, LAMBDA q : q # [p |-> p, slot |-> slot]),
            !.queue = Schedule(@, [t |-> u.now, pr |-> NORMAL, k |-> "release",
                                   p |-> p, res |-> Len(u.resources)])]
           : u \in {s}, res \in {s.procs[p][slot]}} : TRUE

\* Leaving "with ... as slot": a request still waiting is withdrawn, and
\* the release takes the request out of the users at once; the queue is
\* served when the release event is processed.
Release(s, p, slot) ==
    CHOOSE val \in
        {[u EXCEPT
            !.resources[res].put_queue = SelectSeq(@, LAMBDA q : q # [p |-> p, slot |-> slot]),
            !.resources[res].users = SelectSeq(@, LAMBDA q : q # [p |-> p, slot |-> slot]),
            !.queue = Schedule(@, [t |-> u.now, pr |-> NORMAL, k |-> "release",
                                   p |-> p, res |-> res])]
           : u \in {s}, res \in {s.procs[p][slot]}} : TRUE

\* A request event of a process that waits for two requests at once
\* (yield a & b) is processed: the condition is met when both are.
condition_check(s, p) ==
    CHOOSE val \in
        {IF u.procs[p].count + 1 = 2
         THEN [u EXCEPT !.procs[p].count = 2,
                        !.queue = Schedule(@, [t |-> u.now, pr |-> NORMAL,
                                               k |-> "condition", p |-> p])]
         ELSE [u EXCEPT !.procs[p].count = @ + 1]
           : u \in {s}} : TRUE

(***************************************************************************)
(* The handlers are written as functions from one value of the state to   *)
(* the next, so that a handler can call another as the code does.  State   *)
(* is the current value of the variables and Install(r) makes r the next   *)
(* one.                                                                    *)
(***************************************************************************)
State ==
    [ now |-> now,
      queue |-> queue,
      procs |-> procs,
      last |-> last,
      cmds |-> cmds,
      fired |-> fired,
      flaws |-> flaws,
      adaptation_strategies |-> adaptation_strategies,
      strategy_implementation_dates |-> strategy_implementation_dates,
      strategy_expiration_times |-> strategy_expiration_times,
      strategy_weekly_costs |-> strategy_weekly_costs,
      DURATION |-> DURATION,
      CNC_FAILURE_CHANCE |-> CNC_FAILURE_CHANCE,
      SUPPLY_CHAIN_ISSUE_CHANCE |-> SUPPLY_CHAIN_ISSUE_CHANCE,
      QUALITY_ISSUE_CHANCE |-> QUALITY_ISSUE_CHANCE,
      ASSEMBLY_TIME |-> ASSEMBLY_TIME,
      CNC_PROCESSING_TIME |-> CNC_PROCESSING_TIME,
      POWER_OUTAGE_CHANCE |-> POWER_OUTAGE_CHANCE,
      defect_rate |-> defect_rate,
      costs |-> costs,
      revenue |-> revenue,
      liquidation_revenue |-> liquidation_revenue,
      raw_materials |-> raw_materials,
      parts_inventory |-> parts_inventory,
      finished_products |-> finished_products,
      backlog |-> backlog,
      total_orders |-> total_orders,
      fulfilled_orders |-> fulfilled_orders,
      cancelled_orders |-> cancelled_orders,
      operational_cnc_machines |-> operational_cnc_machines,
      available_workers |-> available_workers,
      current_order_rate |-> current_order_rate,
      supply_chain_disrupted |-> supply_chain_disrupted,
      has_quality_issue |-> has_quality_issue,
      power_outage |-> power_outage,
      order_cancellation_active |-> order_cancellation_active,
      maintenance_events |-> maintenance_events,
      total_downtime |-> total_downtime,
      mtbf |-> mtbf,
      mttr |-> mttr,
      last_failure_time |-> last_failure_time,
      repair_times |-> repair_times,
      NUM_CNC_MACHINES |-> NUM_CNC_MACHINES,
      NUM_ASSEMBLY_STATIONS |-> NUM_ASSEMBLY_STATIONS,
      NUM_WORKERS |-> NUM_WORKERS,
      resources |-> resources,
      cnc_machines |-> cnc_machines,
      assembly_stations |-> assembly_stations,
      qc_stations |-> qc_stations,
      workers |-> workers,
      cnc_temperatures |-> cnc_temperatures,
      cnc_vibrations |-> cnc_vibrations,
      active_cnc_requests |-> active_cnc_requests,
      active_worker_requests |-> active_worker_requests,
      active_qc_requests |-> active_qc_requests,
      daily_production |-> daily_production,
      total_inspected |-> total_inspected,
      defects_found |-> defects_found,
      false_negatives |-> false_negatives,
      false_positives |-> false_positives,
      paused |-> paused,
      thread |-> thread ]

InstallFields(r) ==
    /\ now' = r.now
    /\ queue' = r.queue
    /\ procs' = r.procs
    /\ last' = r.last
    /\ cmds' = r.cmds
    /\ fired' = r.fired
    /\ flaws' = r.flaws
    /\ adaptation_strategies' = r.adaptation_strategies
    /\ strategy_implementation_dates' = r.strategy_implementation_dates
    /\ strategy_expiration_times' = r.strategy_expiration_times
    /\ strategy_weekly_costs' = r.strategy_weekly_costs
    /\ DURATION' = r.DURATION
    /\ CNC_FAILURE_CHANCE' = r.CNC_FAILURE_CHANCE
    /\ SUPPLY_CHAIN_ISSUE_CHANCE' = r.SUPPLY_CHAIN_ISSUE_CHANCE
    /\ QUALITY_ISSUE_CHANCE' = r.QUALITY_ISSUE_CHANCE
    /\ ASSEMBLY_TIME' = r.ASSEMBLY_TIME
    /\ CNC_PROCESSING_TIME' = r.CNC_PROCESSING_TIME
    /\ POWER_OUTAGE_CHANCE' = r.POWER_OUTAGE_CHANCE
    /\ defect_rate' = r.defect_rate
    /\ costs' = r.costs
    /\ revenue' = r.revenue
    /\ liquidation_revenue' = r.liquidation_revenue
    /\ raw_materials' = r.raw_materials
    /\ parts_inventory' = r.parts_inventory
    /\ finished_products' = r.finished_products
    /\ backlog' = r.backlog
    /\ total_orders' = r.total_orders
    /\ fulfilled_orders' = r.fulfilled_orders
    /\ cancelled_orders' = r.cancelled_orders
    /\ operational_cnc_machines' = r.operational_cnc_machines
    /\ available_workers' = r.available_workers
    /\ current_order_rate' = r.current_order_rate
    /\ supply_chain_disrupted' = r.supply_chain_disrupted
    /\ has_quality_issue' = r.has_quality_issue
    /\ power_outage' = r.power_outage
    /\ order_cancellation_active' = r.order_cancellation_active
    /\ maintenance_events' = r.maintenance_events
    /\ total_downtime' = r.total_downtime
    /\ mtbf' = r.mtbf
    /\ mttr' = r.mttr
    /\ last_failure_time' = r.last_failure_time
    /\ repair_times' = r.repair_times
    /\ NUM_CNC_MACHINES' = r.NUM_CNC_MACHINES
    /\ NUM_ASSEMBLY_STATIONS' = r.NUM_ASSEMBLY_STATIONS
    /\ NUM_WORKERS' = r.NUM_WORKERS
    /\ resources' = r.resources
    /\ cnc_machines' = r.cnc_machines
    /\ assembly_stations' = r.assembly_stations
    /\ qc_stations' = r.qc_stations
    /\ workers' = r.workers
    /\ cnc_temperatures' = r.cnc_temperatures
    /\ cnc_vibrations' = r.cnc_vibrations
    /\ active_cnc_requests' = r.active_cnc_requests
    /\ active_worker_requests' = r.active_worker_requests
    /\ active_qc_requests' = r.active_qc_requests
    /\ daily_production' = r.daily_production
    /\ total_inspected' = r.total_inspected
    /\ defects_found' = r.defects_found
    /\ false_negatives' = r.false_negatives
    /\ false_positives' = r.false_positives
    /\ paused' = r.paused
    /\ thread' = r.thread

InitFields(r) ==
    /\ now = r.now
    /\ queue = r.queue
    /\ procs = r.procs
    /\ last = r.last
    /\ cmds = r.cmds
    /\ fired = r.fired
    /\ flaws = r.flaws
    /\ adaptation_strategies = r.adaptation_strategies
    /\ strategy_implementation_dates = r.strategy_implementation_dates
    /\ strategy_expiration_times = r.strategy_expiration_times
    /\ strategy_weekly_costs = r.strategy_weekly_costs
    /\ DURATION = r.DURATION
    /\ CNC_FAILURE_CHANCE = r.CNC_FAILURE_CHANCE
    /\ SUPPLY_CHAIN_ISSUE_CHANCE = r.SUPPLY_CHAIN_ISSUE_CHANCE
    /\ QUALITY_ISSUE_CHANCE = r.QUALITY_ISSUE_CHANCE
    /\ ASSEMBLY_TIME = r.ASSEMBLY_TIME
    /\ CNC_PROCESSING_TIME = r.CNC_PROCESSING_TIME
    /\ POWER_OUTAGE_CHANCE = r.POWER_OUTAGE_CHANCE
    /\ defect_rate = r.defect_rate
    /\ costs = r.costs
    /\ revenue = r.revenue
    /\ liquidation_revenue = r.liquidation_revenue
    /\ raw_materials = r.raw_materials
    /\ parts_inventory = r.parts_inventory
    /\ finished_products = r.finished_products
    /\ backlog = r.backlog
    /\ total_orders = r.total_orders
    /\ fulfilled_orders = r.fulfilled_orders
    /\ cancelled_orders = r.cancelled_orders
    /\ operational_cnc_machines = r.operational_cnc_machines
    /\ available_workers = r.available_workers
    /\ current_order_rate = r.current_order_rate
    /\ supply_chain_disrupted = r.supply_chain_disrupted
    /\ has_quality_issue = r.has_quality_issue
    /\ power_outage = r.power_outage
    /\ order_cancellation_active = r.order_cancellation_active
    /\ maintenance_events = r.maintenance_events
    /\ total_downtime = r.total_downtime
    /\ mtbf = r.mtbf
    /\ mttr = r.mttr
    /\ last_failure_time = r.last_failure_time
    /\ repair_times = r.repair_times
    /\ NUM_CNC_MACHINES = r.NUM_CNC_MACHINES
    /\ NUM_ASSEMBLY_STATIONS = r.NUM_ASSEMBLY_STATIONS
    /\ NUM_WORKERS = r.NUM_WORKERS
    /\ resources = r.resources
    /\ cnc_machines = r.cnc_machines
    /\ assembly_stations = r.assembly_stations
    /\ qc_stations = r.qc_stations
    /\ workers = r.workers
    /\ cnc_temperatures = r.cnc_temperatures
    /\ cnc_vibrations = r.cnc_vibrations
    /\ active_cnc_requests = r.active_cnc_requests
    /\ active_worker_requests = r.active_worker_requests
    /\ active_qc_requests = r.active_qc_requests
    /\ daily_production = r.daily_production
    /\ total_inspected = r.total_inspected
    /\ defects_found = r.defects_found
    /\ false_negatives = r.false_negatives
    /\ false_positives = r.false_positives
    /\ paused = r.paused
    /\ thread = r.thread

(***************************************************************************)
(* The float literals of the strategy manager.                             *)
(***************************************************************************)
Lit_0_1 == F(1, 10)
Lit_0_2 == F(2, 10)
Lit_0_25 == F(25, 100)
Lit_0_3 == F(3, 10)
Lit_0_4 == F(4, 10)
Lit_0_5 == F(5, 10)
Lit_0_6 == F(6, 10)
Lit_0_65 == F(65, 100)
Lit_0_67 == F(67, 100)
Lit_0_7 == F(7, 10)
Lit_0_8 == F(8, 10)
Lit_0_85 == F(85, 100)
Lit_0_15 == F(15, 100)
Lit_1_15 == F(115, 100)
Lit_0_02 == F(2, 100)
Lit_0_9 == F(9, 10)
Lit_1_3 == F(13, 10)
Lit_4_0 == Fl(FltInt(4))
Lit_5_0 == Fl(FltInt(5))
Inv_0_7 == NumDiv(I(1), Lit_0_7)

(***************************************************************************)
(* apply_strategy_effects, in its two halves: the bookkeeping of costs     *)
(* and expiration, then the effect on the parameters.                      *)
(***************************************************************************)
StrategyBookkeeping(s, strategy, activate) ==
    IF activate
    THEN [s EXCEPT
            !.costs = NumAdd(@, I(IMPLEMENTATION[strategy])),
            !.strategy_implementation_dates = DictSet(@, strategy, s.now),
            !.strategy_expiration_times =
                DictSet(@, strategy, NumAdd(s.now, I(s.DURATION[strategy]))),
            !.strategy_weekly_costs = @ + WEEKLY[strategy]]
    ELSE [s EXCEPT
            !.strategy_weekly_costs = @ - WEEKLY[strategy],
            !.strategy_expiration_times = DictDel(@, strategy)]

StrategyEffect(s, strategy, activate) ==
    CASE strategy = "PREVENTIVE_MAINTENANCE" ->
            [s EXCEPT !.CNC_FAILURE_CHANCE =
                        NumMul(@, IF activate THEN Lit_0_2 ELSE Lit_5_0)]
      [] strategy = "JUST_IN_TIME_REPLENISHMENT" ->
            IF activate
            THEN [s EXCEPT
                    !.raw_materials = @ + NumInt(NumMul(I(INITIAL_RAW_MATERIALS), Lit_0_5)),
                    !.parts_inventory = @ + NumInt(NumMul(I(INITIAL_INVENTORY), Lit_0_5))]
            ELSE s
      [] strategy = "FLEXIBLE_WORKFORCE" ->
            [s EXCEPT
                !.ASSEMBLY_TIME = NumMul(@, IF activate THEN Lit_0_7 ELSE Inv_0_7),
                !.CNC_PROCESSING_TIME = NumMul(@, IF activate THEN Lit_0_7 ELSE Inv_0_7)]
      [] strategy = "SUPPLIER_DIVERSIFICATION" ->
            [s EXCEPT !.SUPPLY_CHAIN_ISSUE_CHANCE =
                        NumMul(@, IF activate THEN Lit_0_25 ELSE Lit_4_0)]
      [] strategy = "QUALITY_MONITORING" ->
            [s EXCEPT
                !.QUALITY_ISSUE_CHANCE = NumMul(@, IF activate THEN Lit_0_2 ELSE Lit_5_0),
                !.defect_rate = IF activate THEN NumMul(@, Lit_0_4) ELSE NumDiv(@, Lit_0_4)]
      [] strategy = "PEAK_LOAD_OPTIMIZATION" ->
            [s EXCEPT !.POWER_OUTAGE_CHANCE =
                        IF activate THEN NumMul(@, Lit_0_6) ELSE NumDiv(@, Lit_0_6)]
      [] strategy = "INVENTORY_LIQUIDATION" ->
            IF activate
            THEN Process(s, [f |-> "liquidate_inventory", pc |-> "start"])
            ELSE s
      [] strategy = "KPI_MONITORING" ->
            [s EXCEPT
                !.CNC_FAILURE_CHANCE =
                    IF activate THEN NumMul(@, Lit_0_85) ELSE NumDiv(@, Lit_0_85),
                !.QUALITY_ISSUE_CHANCE =
                    IF activate THEN NumMul(@, Lit_0_85) ELSE NumDiv(@, Lit_0_85)]
      [] OTHER -> s

apply_strategy_effects(s, strategy, activate) ==
    (CHOOSE val \in {StrategyEffect(t, strategy, activate) : t \in {StrategyBookkeeping(s, strategy, activate)}} : TRUE)

(***************************************************************************)
(* check_strategy_expiration: the strategies whose time has come, in the   *)
(* order of the dictionary, are removed and their effects undone one after *)
(* the other.                                                              *)
(***************************************************************************)
Expired(current_time, expiration_time) == NumLe(expiration_time, current_time)

expired_strategies(s) ==
    SelectSeq(s.strategy_expiration_times,
              LAMBDA e : Expired(s.now, e.val) /\ e.key \in s.adaptation_strategies)

RECURSIVE ExpireAll(_, _, _)
ExpireAll(s, expired, i) ==
    IF i > Len(expired) THEN s
    ELSE (CHOOSE val \in {ExpireAll(t, expired, i + 1) : t \in {apply_strategy_effects(
                  [s EXCEPT !.adaptation_strategies = @ \ {expired[i].key}],
                  expired[i].key, FALSE)}} : TRUE)

check_strategy_expiration(s) ==
    (CHOOSE val \in {ExpireAll(s, expired, 1) : expired \in {expired_strategies(s)}} : TRUE)

(***************************************************************************)
(* execute_one_time_strategy.  A change of a pool's size makes a new pool  *)
(* object and leaves the old one to the requests made on it.  The three    *)
(* timed effects keep the values they found in a process of their own,     *)
(* which puts them back when its time is up.                               *)
(***************************************************************************)
Min(a, b) == IF a <= b THEN a ELSE b
Max(a, b) == IF a >= b THEN a ELSE b

purchase_cnc_machine(s) ==
    [s EXCEPT
        !.NUM_CNC_MACHINES = @ + 1,
        !.operational_cnc_machines = @ + 1,
        !.resources = Append(@, NewResource("cnc_machines", s.NUM_CNC_MACHINES + 1)),
        !.cnc_machines = Len(s.resources) + 1,
        !.cnc_temperatures = Append(@, "reading"),
        !.cnc_vibrations = Append(@, "reading")]

\* SELL_CNC_MACHINE that sells whenever there is a machine.
sell_any_machine(s) ==
    IF s.NUM_CNC_MACHINES > 0
    THEN [s EXCEPT
            !.NUM_CNC_MACHINES = @ - 1,
            !.operational_cnc_machines = IF @ > 0 THEN @ - 1 ELSE @,
            !.resources = Append(@, NewResource("cnc_machines", s.NUM_CNC_MACHINES - 1)),
            !.cnc_machines = Len(s.resources) + 1,
            !.revenue = NumAdd(@, I(75000))]
    ELSE s

sell_cnc_machine(s) ==
    IF s.NUM_CNC_MACHINES > 1
    THEN [s EXCEPT
            !.NUM_CNC_MACHINES = @ - 1,
            !.operational_cnc_machines = IF @ > 0 THEN @ - 1 ELSE @,
            !.resources = Append(@, NewResource("cnc_machines", s.NUM_CNC_MACHINES - 1)),
            !.cnc_machines = Len(s.resources) + 1,
            !.cnc_temperatures = IF Len(@) > 0 THEN SubSeq(@, 1, Len(@) - 1) ELSE @,
            !.cnc_vibrations = IF Len(@) > 0 THEN SubSeq(@, 1, Len(@) - 1) ELSE @,
            !.revenue = NumAdd(@, I(75000))]
    ELSE s

hire_workers(s) ==
    [s EXCEPT
        !.NUM_WORKERS = @ + 3,
        !.available_workers = @ + 3,
        !.resources = Append(@, NewResource("workers", s.NUM_WORKERS + 3)),
        !.workers = Len(s.resources) + 1]

\* REDUCE_WORKFORCE that lays off 3 workers whenever there are 3.
reduce_any_workforce(s) ==
    IF s.NUM_WORKERS >= 3
    THEN [s EXCEPT
            !.NUM_WORKERS = @ - 3,
            !.available_workers = Min(@, s.NUM_WORKERS - 3),
            !.resources = Append(@, NewResource("workers", s.NUM_WORKERS - 3)),
            !.workers = Len(s.resources) + 1]
    ELSE s

reduce_workforce(s) ==
    IF s.NUM_WORKERS > 3
    THEN (CHOOSE val \in {[s EXCEPT
                    !.NUM_WORKERS = @ - workers_to_layoff,
                    !.available_workers = Min(@, s.NUM_WORKERS - workers_to_layoff),
                    !.resources = Append(@, NewResource("workers", s.NUM_WORKERS - workers_to_layoff)),
                    !.workers = Len(s.resources) + 1] : workers_to_layoff \in {Min(3, s.NUM_WORKERS - 3)}} : TRUE)
    ELSE s

upgrade_assembly(s) ==
    [s EXCEPT
        !.ASSEMBLY_TIME = NumMul(@, Lit_0_7),
        !.NUM_ASSEMBLY_STATIONS = @ + 1,
        !.resources = Append(@, NewResource("assembly_stations", s.NUM_ASSEMBLY_STATIONS + 1)),
        !.assembly_stations = Len(s.resources) + 1]

install_backup_generator(s) ==
    Process([s EXCEPT !.power_outage = FALSE,
                      !.POWER_OUTAGE_CHANCE = NumMul(@, Lit_0_1)],
            [f |-> "restore_power_risk", pc |-> "start",
             old_chance |-> s.POWER_OUTAGE_CHANCE])

\* execute_one_time_strategy assigns CNC_FAILURE_CHANCE (line 1444) and does
\* not declare it global, so the name is local to it: with no machine down,
\* reading it at line 1443 raises UnboundLocalError before anything is
\* changed, and restore_failure_chance is never started.  The exception
\* leaves modify_strategy and is logged by handle_direct_strategy_command.
Raises(s, strategy) ==
    /\ strategy = "EXPEDITE_MAINTENANCE"
    /\ s.operational_cnc_machines >= s.NUM_CNC_MACHINES

expedite_maintenance(s) ==
    IF s.operational_cnc_machines < s.NUM_CNC_MACHINES
    THEN [s EXCEPT !.operational_cnc_machines = s.NUM_CNC_MACHINES]
    ELSE s

\* CANCEL_PENDING_ORDERS without the test of the backlog's size.
cancel_any_backlog(s) ==
    CHOOSE val \in
        {[s EXCEPT !.backlog = @ - orders_to_cancel,
                   !.cancelled_orders = @ + orders_to_cancel,
                   !.revenue = NumAdd(@, NumMul(I(orders_to_cancel * 1500), Lit_0_15))]
           : orders_to_cancel \in {NumInt(NumMul(I(s.backlog), Lit_0_4))}} : TRUE

cancel_pending_orders(s) ==
    IF s.backlog > 10
    THEN (CHOOSE val \in {[s EXCEPT
                    !.backlog = @ - orders_to_cancel,
                    !.cancelled_orders = @ + orders_to_cancel,
                    !.revenue = NumAdd(@, NumMul(I(orders_to_cancel * 1500), Lit_0_15))] : orders_to_cancel \in {NumInt(NumMul(I(s.backlog), Lit_0_4))}} : TRUE)
    ELSE s

\* REALLOCATE_WORKERS (factor 0.8, restore_process_times) and
\* SCHEDULE_OVERTIME (factor 0.67, end_overtime).
speed_up_processes(s, factor, restore) ==
    Process([s EXCEPT !.ASSEMBLY_TIME = NumMul(@, factor),
                      !.CNC_PROCESSING_TIME = NumMul(@, factor)],
            [f |-> restore, pc |-> "start",
             old_assembly_time |-> s.ASSEMBLY_TIME,
             old_cnc_time |-> s.CNC_PROCESSING_TIME])

execute_one_time_strategy(s, strategy) ==
    CASE strategy = "PURCHASE_CNC_MACHINE" -> purchase_cnc_machine(s)
      [] strategy = "SELL_CNC_MACHINE" -> sell_cnc_machine(s)
      [] strategy = "HIRE_WORKERS" -> hire_workers(s)
      [] strategy = "REDUCE_WORKFORCE" -> reduce_workforce(s)
      [] strategy = "EMERGENCY_MATERIALS" -> [s EXCEPT !.raw_materials = @ + 1000]
      [] strategy = "UPGRADE_ASSEMBLY" -> upgrade_assembly(s)
      [] strategy = "INSTALL_BACKUP_GENERATOR" -> install_backup_generator(s)
      [] strategy = "EXPEDITE_MAINTENANCE" -> expedite_maintenance(s)
      [] strategy = "BULK_ORDER_MATERIALS" ->
            Process(s, [f |-> "bulk_delivery", pc |-> "start"])
      [] strategy = "CANCEL_PENDING_ORDERS" -> cancel_pending_orders(s)
      [] strategy = "REALLOCATE_WORKERS" ->
            speed_up_processes(s, Lit_0_8, "restore_process_times")
      [] strategy = "SCHEDULE_OVERTIME" ->
            speed_up_processes(s, Lit_0_67, "end_overtime")
      [] OTHER -> s

(***************************************************************************)
(* modify_strategy.  custom_duration is << >> for None and << d >> for d.  *)
(* The value returned is kept in last.result, without the strategy's       *)
(* display name that the code appends to it.                               *)
(***************************************************************************)
Returned(s, strategy_idx, activate, result) ==
    [s EXCEPT !.last = [op |-> "modify_strategy", strategy_idx |-> strategy_idx,
                        activate |-> activate, result |-> result]]

\* The level of the message execute_one_time_strategy logs about what it did
\* (self.log(LogLevel.INFO, ...) or self.log(LogLevel.WARNING, ...)), or of
\* the message handle_direct_strategy_command logs about the exception.
outcome_level(s, strategy) ==
    CASE Raises(s, strategy) -> "ERROR"
      [] strategy = "SELL_CNC_MACHINE" /\ ~(s.NUM_CNC_MACHINES > 1) -> "WARNING"
      [] strategy = "REDUCE_WORKFORCE" /\ ~(s.NUM_WORKERS > 3) -> "WARNING"
      [] OTHER -> "INFO"

Logged(s, level) ==
    [s EXCEPT !.last = [x \in DOMAIN s.last \cup {"level"} |->
                            IF x = "level" THEN level ELSE s.last[x]]]

\* A manager that forgets which strategies are active.
IsActiveForgotten(strategy, active) == FALSE

IsActive(strategy, active) == strategy \in active

activate_strategy(s, strategy, custom_duration) ==
    IF custom_duration # << >> /\ custom_duration[1] > 0
    THEN (CHOOSE val \in {[t EXCEPT !.DURATION[strategy] = s.DURATION[strategy]] : t \in {apply_strategy_effects(
                  [s EXCEPT !.adaptation_strategies = @ \cup {strategy},
                            !.DURATION[strategy] = custom_duration[1]],
                  strategy, TRUE)}} : TRUE)
    ELSE apply_strategy_effects(
             [s EXCEPT !.adaptation_strategies = @ \cup {strategy}], strategy, TRUE)

modify_strategy(s, strategy_idx, activate, custom_duration) ==
    IF 0 <= strategy_idx /\ strategy_idx < Len(StrategyList)
    THEN (CHOOSE val \in {IF activate
            THEN IF strategy \in ONE_TIME_STRATEGIES
                 THEN Logged(
                        Returned(
                            CHOOSE val \in
                                {execute_one_time_strategy(t, strategy)
                                   : t \in {[s EXCEPT !.costs =
                                               NumAdd(@, I(IMPLEMENTATION[strategy]))]}} : TRUE,
                            strategy_idx, activate,
                            IF Raises(s, strategy) THEN "UnboundLocalError"
                            ELSE "One-time strategy executed"),
                        outcome_level(s, strategy))
                 ELSE IF ~IsActive(strategy, s.adaptation_strategies)
                 THEN Returned(activate_strategy(s, strategy, custom_duration),
                               strategy_idx, activate, "Strategy activated")
                 ELSE Returned(s, strategy_idx, activate,
                               "No change (strategy already active)")
            ELSE IF strategy \notin ONE_TIME_STRATEGIES
                    /\ IsActive(strategy, s.adaptation_strategies)
                 THEN Returned(apply_strategy_effects(
                                   [s EXCEPT !.adaptation_strategies = @ \ {strategy}],
                                   strategy, FALSE),
                               strategy_idx, activate, "Strategy deactivated")
                 ELSE Returned(s, strategy_idx, activate, "No change needed") : strategy \in {StrategyList[strategy_idx + 1]}} : TRUE)
    ELSE Returned(s, strategy_idx, activate, "Invalid strategy index")

(***************************************************************************)
(* handle_direct_strategy_command: a message on factory/command/<name>     *)
(* with payload {"trigger": ..., "duration": days}.  duration is << >>     *)
(* when the payload has none.                                              *)
(***************************************************************************)
custom_duration_of(duration) ==
    IF duration = << >> THEN << >>
    ELSE << NumInt(NumMul(NumMul(Fl(NumToFlt(duration[1])), I(24)), I(60))) >>

\* last.custom_duration keeps the duration the command asked for; it is
\* history only.
Asked(s, custom_duration) ==
    [s EXCEPT !.last = [x \in DOMAIN s.last \cup {"custom_duration"} |->
                            IF x = "custom_duration" THEN custom_duration
                            ELSE s.last[x]]]

direct_strategy_command(s, strategy_name, trigger, duration) ==
    IF strategy_name \in AdaptationStrategy
    THEN IF trigger
         THEN Asked(modify_strategy(s, StrategyIndex(strategy_name), TRUE,
                                    custom_duration_of(duration)),
                    custom_duration_of(duration))
         ELSE Asked(modify_strategy(s, StrategyIndex(strategy_name), FALSE, << >>),
                    << >>)
    ELSE [s EXCEPT !.last = [op |-> "unknown_strategy"]]

(***************************************************************************)
(* on_mqtt_message.  A message is its topic after "factory/command/",      *)
(* whether its payload decodes as JSON, whether the decoded payload is an   *)
(* object, the object's fields and, as handle_direct_strategy_command      *)
(* takes it, the duration.  A field's value is [t |-> type, v |-> value].   *)
(***************************************************************************)
Noted(s, op, result) == [s EXCEPT !.last = [op |-> op, result |-> result]]

\* str(payload["command"]).lower(), for the commands that are sent.
Lower(command) ==
    CASE command = "PAUSE" -> "pause"
      [] command = "Resume" -> "resume"
      [] command = "STOP" -> "stop"
      [] OTHER -> command

IsTrue(value) == value.t = "bool" /\ value.v

IsFalse(value) == value.t = "bool" /\ ~value.v

\* loop_stop() called in the thread of the callback sets the flag that ends
\* that thread, and sys.exit(0) raises SystemExit in that thread, which
\* neither "except Exception" catches: that thread ends, the main thread
\* goes on.
handle_stop(s) ==
    Noted([s EXCEPT !.thread = "stopped"], "handle_simulation_command", "stop")

\* An unknown command that pauses the simulation.
handle_unknown_pauses(s, command) ==
    Noted([s EXCEPT !.paused = TRUE], "handle_simulation_command", "unknown")

handle_unknown(s, command) == Noted(s, "handle_simulation_command", "unknown")

handle_simulation_command(s, payload) ==
    IF ~payload.dict
    THEN Noted(s, "handle_simulation_command", "TypeError")
    ELSE IF "command" \notin DOMAIN payload.fields
    THEN Noted(s, "handle_simulation_command", "missing")
    ELSE CASE Lower(payload.fields.command.v) = "pause" ->
                 Noted([s EXCEPT !.paused = TRUE], "handle_simulation_command", "pause")
           [] Lower(payload.fields.command.v) = "resume" ->
                 Noted([s EXCEPT !.paused = FALSE], "handle_simulation_command", "resume")
           [] Lower(payload.fields.command.v) = "stop" -> handle_stop(s)
           [] OTHER -> handle_unknown(s, payload.fields.command.v)

handle_direct_strategy_command(s, topic, payload, duration) ==
    IF ~payload.dict
    THEN Noted(s, "handle_direct_strategy_command", "TypeError")
    ELSE IF "trigger" \in DOMAIN payload.fields /\ IsTrue(payload.fields.trigger)
    THEN direct_strategy_command(s, topic, TRUE, duration)
    ELSE IF "trigger" \in DOMAIN payload.fields /\ IsFalse(payload.fields.trigger)
    THEN direct_strategy_command(s, topic, FALSE, duration)
    ELSE Noted(s, "handle_direct_strategy_command", "invalid trigger")

\* self.handle_strategy_command is no attribute of the factory: the call
\* raises AttributeError, which on_mqtt_message catches and prints.
handle_strategy_command(s, payload) == Noted(s, "on_mqtt_message", "AttributeError")

\* last.msg keeps the message; it is history only.
Received(s, msg) ==
    [s EXCEPT !.last = [x \in DOMAIN s.last \cup {"msg"} |->
                            IF x = "msg" THEN msg ELSE s.last[x]]]

\* msg.payload.decode() raises UnicodeDecodeError on bytes that are not
\* UTF-8; the handler of "except Exception" decodes the payload again to
\* print it, and the exception it raises leaves the callback and ends the
\* thread that called it.
dispatch(s, msg) ==
    IF msg.decodes = "not UTF-8"
    THEN Noted([s EXCEPT !.thread = "raised"], "on_mqtt_message", "UnicodeDecodeError")
    ELSE IF msg.decodes = "not JSON"
    THEN Noted(s, "on_mqtt_message", "JSONDecodeError")
    ELSE IF msg.topic = "strategy"
    THEN handle_strategy_command(s, [dict |-> msg.dict, fields |-> msg.fields])
    ELSE IF msg.topic = "simulation"
    THEN handle_simulation_command(s, [dict |-> msg.dict, fields |-> msg.fields])
    ELSE handle_direct_strategy_command(s, msg.topic,
                                        [dict |-> msg.dict, fields |-> msg.fields],
                                        msg.duration)

on_mqtt_message(s, msg) == Received(dispatch(s, msg), msg)

(***************************************************************************)
(* The processes of the strategy manager, each a function of the state and *)
(* the process p that resumes.                                             *)
(***************************************************************************)
liquidate_inventory(s, p) ==
    IF s.procs[p].pc = "start"
    THEN IF "INVENTORY_LIQUIDATION" \notin s.adaptation_strategies
            \/ Max(0, s.finished_products - s.backlog - 10) <= 0
         THEN Return(s, p)
         ELSE (CHOOSE val \in {Timeout([s EXCEPT
                                !.finished_products = @ - excess_finished_products,
                                !.liquidation_revenue =
                                    NumAdd(@, NumMul(I(excess_finished_products),
                                                     NumMul(I(1500), Lit_0_65)))],
                             p, I(12 * 60), "wait") : excess_finished_products \in {Max(0, s.finished_products - s.backlog - 10)}} : TRUE)
    ELSE IF "INVENTORY_LIQUIDATION" \in s.adaptation_strategies
         THEN Process(Return(s, p), [f |-> "liquidate_inventory", pc |-> "start"])
         ELSE Return(s, p)

restore_power_risk(s, p) ==
    IF s.procs[p].pc = "start"
    THEN Timeout(s, p, I(24 * 60), "wait")
    ELSE Return([s EXCEPT !.POWER_OUTAGE_CHANCE = s.procs[p].old_chance], p)

restore_process_times(s, p) ==
    IF s.procs[p].pc = "start"
    THEN Timeout(s, p, I(8 * 60), "wait")
    ELSE Return([s EXCEPT !.ASSEMBLY_TIME = s.procs[p].old_assembly_time,
                          !.CNC_PROCESSING_TIME = s.procs[p].old_cnc_time], p)

end_overtime(s, p) ==
    IF s.procs[p].pc = "start"
    THEN Timeout(s, p, I(24 * 60), "wait")
    ELSE Return([s EXCEPT !.ASSEMBLY_TIME = s.procs[p].old_assembly_time,
                          !.CNC_PROCESSING_TIME = s.procs[p].old_cnc_time], p)

bulk_delivery(s, p) ==
    CASE s.procs[p].pc = "start" ->
            Timeout([s EXCEPT !.raw_materials = @ + (2000 \div 3)], p, I(24 * 60), "second")
      [] s.procs[p].pc = "second" ->
            Timeout([s EXCEPT !.raw_materials = @ + (2000 \div 3)], p, I(24 * 60), "third")
      [] OTHER ->
            Return([s EXCEPT !.raw_materials =
                               @ + (2000 - (2000 \div 3) - (2000 \div 3))], p)

\* Weekly costs that fall due at minute 0 as well.
weekly_costs_due_from_start(current_time) == current_time % (7 * 24 * 60) < 60

\* The weekly strategy costs fall due in the first hour of each 7-day period,
\* but not at minute 0.
weekly_costs_due(current_time) ==
    current_time > 0 /\ current_time % (7 * 24 * 60) < 60

\* publish_mqtt_updates: the factory's data are published, which changes
\* none of them, and the process waits
\* MQTT_UPDATE_INTERVAL * 60 / REAL_TIME_FACTOR minutes.
MQTT_UPDATE_INTERVAL == 1
REAL_TIME_FACTOR == 100

publish_mqtt_updates(s, p) ==
    Timeout(s, p, NumDiv(I(MQTT_UPDATE_INTERVAL * 60), I(REAL_TIME_FACTOR)), "tick")

monitor_metrics(s, p) ==
    (CHOOSE val \in {Timeout(check_strategy_expiration(t), p, I(60), "tick") : t \in {IF weekly_costs_due(NumInt(s.now)) /\ s.strategy_weekly_costs > 0
         THEN [s EXCEPT !.costs = NumAdd(@, I(s.strategy_weekly_costs))]
         ELSE s}} : TRUE)

(***************************************************************************)
(* Orders and raw materials.                                               *)
(***************************************************************************)
ship(s, available_products) ==
    IF available_products > 0
    THEN [s EXCEPT
            !.finished_products = @ - available_products,
            !.backlog = @ - available_products,
            !.fulfilled_orders = @ + available_products,
            !.daily_production = @ + available_products,
            !.revenue = NumAdd(@, I(available_products * 1500))]
    ELSE s

\* The ledger counters and the revenue, as process_backlog finds them: kept
\* in last.before, which is history only.
Ledger(s) ==
    [raw_materials |-> s.raw_materials, parts_inventory |-> s.parts_inventory,
     finished_products |-> s.finished_products, backlog |-> s.backlog,
     cancelled_orders |-> s.cancelled_orders, total_orders |-> s.total_orders,
     fulfilled_orders |-> s.fulfilled_orders, revenue |-> s.revenue]

Entered(s) ==
    [s EXCEPT !.last = [x \in DOMAIN s.last \cup {"before"} |->
                            IF x = "before" THEN Ledger(s) ELSE s.last[x]]]

\* process_backlog shipping every finished product, whatever the backlog.
process_backlog_all(s) == ship(Entered(s), s.finished_products)

process_backlog(s) == ship(Entered(s), Min(s.finished_products, s.backlog))

\* order_raw_materials: order_amount is settled when the process starts and
\* arrives after the delivery time.
jit_order_amount(s) ==
    CHOOSE val \in
        {Max(500, Min(1000, NumInt(NumMul(needed_parts, Lit_1_15))))
           : needed_parts \in
               {NumAdd(I(Max(0, s.backlog * PARTS_PER_PRODUCT - s.parts_inventory)),
                       NumMul(NumMul(s.current_order_rate, I(PARTS_PER_PRODUCT)), I(5)))}}
        : TRUE

delivery_time(s) ==
    CHOOSE val \in
        {IF s.supply_chain_disrupted THEN NumMul(t, I(2)) ELSE t
           : t \in {IF "JUST_IN_TIME_REPLENISHMENT" \in s.adaptation_strategies
                    THEN NumMul(I(DELIVERY_TIME), Lit_0_7)
                    ELSE I(DELIVERY_TIME)}} : TRUE

order_raw_materials(s, p) ==
    IF s.procs[p].pc = "start"
    THEN CHOOSE val \in
            {Timeout([s EXCEPT !.costs = NumAdd(@, I(order_amount * RAW_MATERIAL_COST)),
                               !.procs[p].order_amount = order_amount],
                     p, delivery_time(s), "delivery")
               : order_amount \in
                   {IF "JUST_IN_TIME_REPLENISHMENT" \in s.adaptation_strategies
                    THEN jit_order_amount(s) ELSE 500}} : TRUE
    ELSE Return([s EXCEPT !.raw_materials = @ + s.procs[p].order_amount], p)

\* generate_orders; variation is the value random.uniform(0.6, 1.4) gives.
\* The day's orders are recorded, the backlog is processed, and raw
\* materials are ordered if they are short.
record_orders(s, variation) ==
    CHOOSE val \in
        {[s EXCEPT !.daily_production = 0,
                   !.total_orders = @ + daily_orders,
                   !.backlog = @ + daily_orders]
           : daily_orders \in
               {NumInt(NumMul(I(NumInt(s.current_order_rate)), variation))}} : TRUE

reorder_and_wait(s, p) ==
    Timeout(IF s.raw_materials < 200 /\ ~s.supply_chain_disrupted
            THEN Process(s, [f |-> "order_raw_materials", pc |-> "start",
                             order_amount |-> 0])
            ELSE s,
            p, I(24 * 60), "day")

generate_orders(s, p, variation) ==
    IF s.procs[p].pc = "start"
    THEN Timeout(s, p, I(24 * 60), "day")
    ELSE CHOOSE val \in
            {reorder_and_wait(t, p)
               : t \in {process_backlog(record_orders(s, variation))}} : TRUE

\* The same span in two parts, for a run in which the thread of the MQTT
\* client is given the interpreter inside it: up to the moment min() has
\* returned in process_backlog, and from there to the next yield.
generate_orders_reads(s, p, variation) ==
    IF s.procs[p].pc = "start"
    THEN Timeout(s, p, I(24 * 60), "day")
    ELSE CHOOSE val \in
            {[t EXCEPT !.procs[p].pc = "shipping",
                       !.procs[p].available_products = Min(t.finished_products, t.backlog)]
               : t \in {record_orders(s, variation)}} : TRUE

generate_orders_ships(s, p) ==
    CHOOSE val \in
        {reorder_and_wait(t, p)
           : t \in {ship([s EXCEPT !.procs[p].available_products = 0],
                         s.procs[p].available_products)}} : TRUE

(***************************************************************************)
(* The production line.  A process is at pc "start" when it begins and at  *)
(* "poll" while it waits to look again.                                    *)
(***************************************************************************)
produce_parts_loop(s, p) ==
    IF s.power_outage
    THEN Timeout(s, p, I(10), "poll")
    ELSE IF s.raw_materials <= 0 \/ s.operational_cnc_machines <= 0
            \/ s.available_workers <= 0
    THEN Timeout(s, p, I(10), "poll")
    ELSE Request([s EXCEPT !.procs[p].pc = "cnc_req"], p, "cnc_req", s.cnc_machines)

\* Leaving both with-blocks, the inner one first, and going round the loop.
produce_parts_again(s, p) ==
    CHOOSE val \in
        {produce_parts_loop(u, p)
           : u \in {Release(Release(s, p, "worker_req"), p, "cnc_req")}} : TRUE

\* A producer that takes a whole batch of 15 whatever is left.
produce_parts_whole_batch(s, p) ==
    Timeout([s EXCEPT !.active_cnc_requests = @ + 1,
                      !.active_worker_requests = @ + 1,
                      !.raw_materials = @ - 15,
                      !.procs[p].batch_size = 15],
            p, NumMul(s.CNC_PROCESSING_TIME, I(15)), "processing")

produce_parts_batch(s, p) ==
    CHOOSE val \in
        {IF batch_size <= 0
         THEN produce_parts_again([s EXCEPT !.procs[p].batch_size = batch_size], p)
         ELSE Timeout([s EXCEPT !.active_cnc_requests = @ + 1,
                                !.active_worker_requests = @ + 1,
                                !.raw_materials = @ - batch_size,
                                !.procs[p].batch_size = batch_size],
                      p,
                      IF "LEAN_MANUFACTURING" \in s.adaptation_strategies
                      THEN NumMul(NumMul(s.CNC_PROCESSING_TIME, I(batch_size)), Lit_0_8)
                      ELSE NumMul(s.CNC_PROCESSING_TIME, I(batch_size)),
                      "processing")
           : batch_size \in {Min(15, s.raw_materials)}} : TRUE

produce_parts(s, p) ==
    CASE s.procs[p].pc \in {"start", "poll"} -> produce_parts_loop(s, p)
      [] s.procs[p].pc = "cnc_req" ->
            Request([s EXCEPT !.procs[p].pc = "worker_req"], p, "worker_req", s.workers)
      [] s.procs[p].pc = "worker_req" -> produce_parts_batch(s, p)
      [] s.procs[p].pc = "processing" ->
            produce_parts_again(
                [s EXCEPT !.parts_inventory = @ + s.procs[p].batch_size,
                          !.costs = NumAdd(@, I(s.procs[p].batch_size * 30)),
                          !.active_cnc_requests = @ - 1,
                          !.active_worker_requests = @ - 1],
                p)

\* with first.request() as first_req, workers.request() as worker_req:
\*     yield first_req & worker_req
RequestBoth(s, p, first_req, first, pc) ==
    CHOOSE val \in
        {Request(u, p, "worker_req", s.workers)
           : u \in {Request([s EXCEPT !.procs[p].pc = pc, !.procs[p].count = 0],
                            p, first_req, first)}} : TRUE

\* An assembler that looks again 10 minutes after it found too few parts.
assemble_products_loop_sooner(s, p) ==
    IF s.power_outage
    THEN Timeout(s, p, I(10), "poll")
    ELSE IF s.parts_inventory < PARTS_PER_PRODUCT
    THEN Timeout(s, p, I(10), "poll")
    ELSE IF s.available_workers <= 0 \/ s.active_worker_requests + 1 > s.available_workers
    THEN Timeout(s, p, I(60), "poll")
    ELSE RequestBoth([s EXCEPT !.active_worker_requests = @ + 1],
                     p, "assembly_req", s.assembly_stations, "acquire")

assemble_products_loop(s, p) ==
    IF s.power_outage
    THEN Timeout(s, p, I(10), "poll")
    ELSE IF s.parts_inventory < PARTS_PER_PRODUCT \/ s.available_workers <= 0
    THEN Timeout(s, p, I(60), "poll")
    ELSE IF s.active_worker_requests + 1 > s.available_workers
    THEN Timeout(s, p, I(60), "poll")
    ELSE RequestBoth([s EXCEPT !.active_worker_requests = @ + 1],
                     p, "assembly_req", s.assembly_stations, "acquire")

\* An assembler that takes a whole batch of 5 whatever parts are left.
assemble_products_whole_batch(s, p) ==
    Timeout([s EXCEPT !.parts_inventory = @ - 5 * PARTS_PER_PRODUCT,
                      !.procs[p].batch_size = 5],
            p, NumMul(s.ASSEMBLY_TIME, I(5)), "assembling")

assemble_products_batch(s, p) ==
    CHOOSE val \in
        {Timeout([s EXCEPT !.parts_inventory = @ - batch_size * PARTS_PER_PRODUCT,
                           !.procs[p].batch_size = batch_size],
                 p,
                 IF "LEAN_MANUFACTURING" \in s.adaptation_strategies
                 THEN NumMul(NumMul(s.ASSEMBLY_TIME, I(batch_size)), Lit_0_8)
                 ELSE NumMul(s.ASSEMBLY_TIME, I(batch_size)),
                 "assembling")
           : batch_size \in {Min(5, s.parts_inventory \div PARTS_PER_PRODUCT)}} : TRUE

\* env.process(self.product_to_qc()), n times.
RECURSIVE ToQc(_, _)
ToQc(s, n) ==
    IF n = 0 THEN s
    ELSE ToQc(Process(s, [f |-> "product_to_qc", pc |-> "start", qc_req |-> 0,
                          worker_req |-> 0, count |-> 0]),
              n - 1)

\* spoiled: there is a quality issue and random.random() < 0.3.
assemble_products_done(s, p, spoiled) ==
    CHOOSE val \in
        {assemble_products_loop(u, p)
           : u \in {Release(
                      Release(
                        [t EXCEPT !.active_worker_requests = @ - 1],
                        p, "worker_req"),
                      p, "assembly_req")
                    : t \in {ToQc([s EXCEPT !.costs =
                                       NumAdd(@, I(s.procs[p].batch_size * 50))],
                                  IF s.has_quality_issue /\ spoiled
                                  THEN NumInt(NumMul(I(s.procs[p].batch_size), Lit_0_7))
                                  ELSE s.procs[p].batch_size)}}} : TRUE

assemble_products(s, p, spoiled) ==
    CASE s.procs[p].pc \in {"start", "poll"} -> assemble_products_loop(s, p)
      [] s.procs[p].pc = "acquire" -> assemble_products_batch(s, p)
      [] s.procs[p].pc = "assembling" -> assemble_products_done(s, p, spoiled)

\* The verdicts of an inspection: the product is good and passes, its
\* defect is detected, its defect is missed, or it is good and rejected.
Verdicts == {"good", "detected", "missed", "false_positive"}

inspect(s, verdict) ==
    [s EXCEPT
        !.total_inspected = @ + 1,
        !.defects_found = IF verdict = "detected" THEN @ + 1 ELSE @,
        !.false_negatives = IF verdict = "missed" THEN @ + 1 ELSE @,
        !.false_positives = IF verdict = "false_positive" THEN @ + 1 ELSE @,
        !.finished_products = IF verdict \in {"good", "missed"} THEN @ + 1 ELSE @,
        !.active_qc_requests = @ - 1]

product_to_qc(s, p, verdict) ==
    CASE s.procs[p].pc = "start" ->
            IF s.power_outage
            THEN Timeout(s, p, I(10), "no_power")
            ELSE RequestBoth([s EXCEPT !.active_qc_requests = @ + 1],
                             p, "qc_req", s.qc_stations, "acquire")
      [] s.procs[p].pc = "no_power" -> Return(s, p)
      [] s.procs[p].pc = "acquire" -> Timeout(s, p, I(QC_INSPECTION_TIME), "inspection")
      [] s.procs[p].pc = "inspection" ->
            Return(Release(Release(process_backlog(inspect(s, verdict)),
                                   p, "worker_req"),
                           p, "qc_req"),
                   p)

(***************************************************************************)
(* The disruptions.  Each is a process that applies its effect when it     *)
(* starts (pc "start") and takes it back when its time is up (pc           *)
(* "active"); the values the code draws at random are parameters.          *)
(***************************************************************************)
RECURSIVE SumFrom(_, _, _)
SumFrom(seq, i, acc) ==
    IF i > Len(seq) THEN acc ELSE SumFrom(seq, i + 1, NumAdd(acc, seq[i]))

\* sum(seq)
Sum(seq) == SumFrom(seq, 1, I(0))

\* The running mean time between failures, at a failure that is event
\* number events.
mtbf_update(s, events) ==
    IF NumLt(I(0), s.last_failure_time)
    THEN IF events > 1
         THEN NumDiv(NumAdd(NumMul(s.mtbf, I(events - 1)),
                            NumSub(s.now, s.last_failure_time)),
                     I(events))
         ELSE NumSub(s.now, s.last_failure_time)
    ELSE s.mtbf

repair_time_of(s, hours) ==
    CHOOSE val \in
        {IF "KPI_MONITORING" \in s.adaptation_strategies
         THEN NumMul(t, Lit_0_85) ELSE t
           : t \in {IF "MODULAR_REPAIR_KITS" \in s.adaptation_strategies
                    THEN NumMul(I(hours * 60), Lit_0_6)
                    ELSE I(hours * 60)}} : TRUE

repair_cost_of(s, repair_time) ==
    NumAdd(IF "KPI_MONITORING" \in s.adaptation_strategies
           THEN NumMul(I(5000), Lit_0_9) ELSE I(5000),
           NumMul(NumDiv(repair_time, I(60)), I(250)))

\* hours is random.randint(8, 36).  since and started_with remember when
\* the failure began and how many machines were running then; they are
\* history only.
cnc_machine_failure(s, p, hours) ==
    IF s.procs[p].pc = "start"
    THEN IF s.operational_cnc_machines > 0
         THEN CHOOSE val \in
                {Timeout([s EXCEPT
                            !.maintenance_events = @ + 1,
                            !.mtbf = mtbf_update(s, s.maintenance_events + 1),
                            !.last_failure_time = s.now,
                            !.operational_cnc_machines = @ - 1,
                            !.costs = NumAdd(@, repair_cost_of(s, repair_time)),
                            !.total_downtime = NumAdd(@, repair_time),
                            !.repair_times = Append(@, repair_time),
                            !.mttr = NumDiv(Sum(Append(s.repair_times, repair_time)),
                                            I(Len(s.repair_times) + 1)),
                            !.procs[p].repair_time = repair_time,
                            !.procs[p].since = s.now,
                            !.procs[p].started_with = s.operational_cnc_machines],
                         p, repair_time, "active")
                   : repair_time \in {repair_time_of(s, hours)}} : TRUE
         ELSE Return(s, p)
    ELSE Return([s EXCEPT !.operational_cnc_machines = @ + 1], p)

outsourced(s, additional_orders) ==
    CHOOSE val \in
        {[s EXCEPT !.fulfilled_orders = @ + outsourced_orders,
                   !.revenue = NumAdd(@, I(outsourced_orders * 1500)),
                   !.costs = NumAdd(@, I(outsourced_orders * 1200))]
           : outsourced_orders \in {NumInt(NumMul(I(additional_orders), Lit_0_6))}}
        : TRUE

overtime(s, p, spike_duration) ==
    [s EXCEPT
        !.procs[p].overtime = TRUE,
        !.procs[p].old_assembly_time = s.ASSEMBLY_TIME,
        !.procs[p].old_cnc_time = s.CNC_PROCESSING_TIME,
        !.ASSEMBLY_TIME = NumDiv(@, Lit_1_3),
        !.CNC_PROCESSING_TIME = NumDiv(@, Lit_1_3),
        !.costs = NumAdd(@,
            NumMul(NumMul(NumMul(NumDiv(I(spike_duration), I(60)),
                                 I(Min(s.NUM_WORKERS,
                                       s.NUM_CNC_MACHINES + s.NUM_ASSEMBLY_STATIONS))),
                          I(50)),
                   Lit_0_5))]

\* spike_multiplier is random.uniform(2.0, 4.0) and days random.randint(1, 3).
order_spike(s, p, spike_multiplier, days) ==
    IF s.procs[p].pc = "start"
    THEN CHOOSE val \in
            {Timeout(IF "OVERTIME_POLICY" \in s.adaptation_strategies
                     THEN overtime(t, p, days * 24 * 60) ELSE t,
                     p, I(days * 24 * 60), "active")
               : t \in
                   {CHOOSE u \in
                      {IF "OUTSOURCING" \in s.adaptation_strategies
                       THEN outsourced(r, NumInt(NumMul(
                                NumSub(r.current_order_rate, s.current_order_rate),
                                NumDiv(I(days * 24 * 60), I(24 * 60)))))
                       ELSE r
                         : r \in {[s EXCEPT
                                     !.procs[p].original_rate = s.current_order_rate,
                                     !.current_order_rate = NumMul(@, spike_multiplier)]}}
                      : TRUE}} : TRUE
    ELSE Return([s EXCEPT
                    !.ASSEMBLY_TIME =
                        IF s.procs[p].overtime THEN s.procs[p].old_assembly_time ELSE @,
                    !.CNC_PROCESSING_TIME =
                        IF s.procs[p].overtime THEN s.procs[p].old_cnc_time ELSE @,
                    !.current_order_rate = s.procs[p].original_rate],
                p)

\* days is random.randint(2, 7).
supply_chain_disruption(s, p, days) ==
    IF s.procs[p].pc = "start"
    THEN IF ~s.supply_chain_disrupted
         THEN Timeout([s EXCEPT !.supply_chain_disrupted = TRUE], p,
                      IF "SUPPLIER_DIVERSIFICATION" \in s.adaptation_strategies
                      THEN NumMul(I(days * 24 * 60), Lit_0_5)
                      ELSE I(days * 24 * 60),
                      "active")
         ELSE Return(s, p)
    ELSE Return([s EXCEPT !.supply_chain_disrupted = FALSE], p)

\* absent is random.randint(1, max_absent) and days random.randint(1, 3).
worker_absence(s, p, absent, days) ==
    IF s.procs[p].pc = "start"
    THEN CHOOSE val \in
            {IF num_absent > 0
             THEN Timeout([s EXCEPT
                             !.available_workers = @ - num_absent,
                             !.procs[p].num_absent = num_absent,
                             !.costs =
                                 IF "OVERTIME_POLICY" \in s.adaptation_strategies
                                 THEN NumAdd(@, NumMul(NumMul(
                                          NumDiv(I(days * 24 * 60), I(60)),
                                          NumMul(I(num_absent), Lit_0_6)), I(30)))
                                 ELSE @],
                          p, I(days * 24 * 60), "active")
             ELSE Return(s, p)
               : num_absent \in {Min(absent, s.available_workers)}} : TRUE
    ELSE Return([s EXCEPT !.available_workers = @ + s.procs[p].num_absent], p)

quality_control_issue(s, p) ==
    IF s.procs[p].pc = "start"
    THEN IF ~s.has_quality_issue
         THEN CHOOSE val \in
                {Timeout([s EXCEPT
                            !.has_quality_issue = TRUE,
                            !.finished_products = @ - defective_products,
                            !.defect_rate = defective_rate,
                            !.defects_found = @ + defective_products,
                            !.costs = NumAdd(@, I(defective_products * 300))],
                         p, I(s.procs[p].duration), "active")
                   : defective_rate \in
                       {IF "QUALITY_MONITORING" \in s.adaptation_strategies
                        THEN Lit_0_15 ELSE Lit_0_4},
                     defective_products \in
                       {NumInt(NumMul(I(s.finished_products),
                                      IF "QUALITY_MONITORING" \in s.adaptation_strategies
                                      THEN Lit_0_15 ELSE Lit_0_4))}} : TRUE
         ELSE Return(s, p)
    ELSE Return([s EXCEPT !.has_quality_issue = FALSE, !.defect_rate = Lit_0_02], p)

\* minutes is random.randint(45, 360).
power_outage_event(s, p, minutes) ==
    IF s.procs[p].pc = "start"
    THEN IF ~s.power_outage
         THEN CHOOSE val \in
                {Timeout([s EXCEPT
                            !.power_outage = TRUE,
                            !.costs = NumAdd(@,
                                NumAdd(NumAdd(I(5000),
                                              NumMul(NumMul(NumDiv(s.current_order_rate, I(24)),
                                                            NumDiv(I(minutes), I(60))),
                                                     I(FINISHED_PRODUCT_VALUE))),
                                       I(250 * s.operational_cnc_machines))),
                            !.total_downtime = NumAdd(@, outage_duration)],
                         p, outage_duration, "active")
                   : outage_duration \in
                       {IF "PEAK_LOAD_OPTIMIZATION" \in s.adaptation_strategies
                        THEN NumMul(I(minutes), Lit_0_6) ELSE I(minutes)}} : TRUE
         ELSE Return(s, p)
    ELSE Return([s EXCEPT !.power_outage = FALSE], p)

cancelled(s, cancellation_rate) ==
    CHOOSE val \in
        {IF "INVENTORY_LIQUIDATION" \in s.adaptation_strategies
         THEN NumInt(NumMul(I(orders_to_cancel), Lit_0_6)) ELSE orders_to_cancel
           : orders_to_cancel \in {NumInt(NumMul(I(s.backlog), cancellation_rate))}}
        : TRUE

\* cancellation_rate is random.uniform(0.2, 0.5) and hours
\* random.randint(4, 12).
order_cancellation(s, p, cancellation_rate, hours) ==
    IF s.procs[p].pc = "start"
    THEN IF ~s.order_cancellation_active /\ s.backlog > 0
         THEN CHOOSE val \in
                {Timeout([t EXCEPT
                            !.order_cancellation_active = TRUE,
                            !.backlog = @ - orders_to_cancel,
                            !.cancelled_orders = @ + orders_to_cancel,
                            !.revenue = NumAdd(@, NumMul(I(orders_to_cancel * 1500),
                                                         Lit_0_1))],
                         p, I(hours * 60), "active")
                   : orders_to_cancel \in {cancelled(s, cancellation_rate)},
                     t \in {IF "INVENTORY_LIQUIDATION" \in s.adaptation_strategies
                            THEN Process(s, [f |-> "liquidate_inventory",
                                             pc |-> "start"])
                            ELSE s}} : TRUE
         ELSE Return(s, p)
    ELSE Return([s EXCEPT !.order_cancellation_active = FALSE], p)

\* The disruption processes generate_disruptions starts, in the order in
\* which it looks at them.
DisruptionKinds ==
    << "cnc_machine_failure", "order_spike", "supply_chain_disruption",
       "worker_absence", "quality_control_issue", "power_outage_event",
       "order_cancellation" >>

Disruption(s, kind) ==
    CASE kind = "cnc_machine_failure" ->
            [f |-> kind, pc |-> "start", repair_time |-> I(0), since |-> I(0),
             started_with |-> 0]
      [] kind = "order_spike" ->
            [f |-> kind, pc |-> "start", original_rate |-> I(0), overtime |-> FALSE,
             old_assembly_time |-> I(0), old_cnc_time |-> I(0)]
      [] kind = "worker_absence" ->
            [f |-> kind, pc |-> "start", num_absent |-> 0,
             max_absent |-> IF "FLEXIBLE_WORKFORCE" \in s.adaptation_strategies
                            THEN 1 ELSE 3]
      [] kind = "quality_control_issue" ->
            [f |-> kind, pc |-> "start",
             duration |-> IF "QUALITY_MONITORING" \in s.adaptation_strategies
                          THEN 4 * 60 ELSE 12 * 60]
      [] OTHER -> [f |-> kind, pc |-> "start"]

RECURSIVE Disrupt(_, _, _)
Disrupt(s, fire, i) ==
    IF i > Len(DisruptionKinds) THEN s
    ELSE CHOOSE val \in
            {Disrupt(t, fire, i + 1)
               : t \in {IF DisruptionKinds[i] \in fire
                        THEN Process([s EXCEPT !.fired = @ + 1],
                                     Disruption(s, DisruptionKinds[i]))
                        ELSE s}} : TRUE

\* generate_disruptions; fire holds the kinds whose random draws start a
\* disruption at this look.
generate_disruptions(s, p, fire) ==
    IF s.procs[p].pc = "start"
    THEN Timeout(s, p, I(6 * 60), "look")
    ELSE Timeout(Disrupt(s, fire, 1), p, I(6 * 60), "look")

(***************************************************************************)
(* trip remembers, for each persistent strategy, the rate parameters as    *)
(* they were before its last activation (pre), as they were after the      *)
(* step that ended it (post), and whether anything else changed them in    *)
(* between (clean).  It is history only: no handler reads it.              *)
(***************************************************************************)
PersistentStrategies == AdaptationStrategy \ ONE_TIME_STRATEGIES

Rates(s) ==
    [ CNC_FAILURE_CHANCE |-> s.CNC_FAILURE_CHANCE,
      SUPPLY_CHAIN_ISSUE_CHANCE |-> s.SUPPLY_CHAIN_ISSUE_CHANCE,
      QUALITY_ISSUE_CHANCE |-> s.QUALITY_ISSUE_CHANCE,
      defect_rate |-> s.defect_rate,
      ASSEMBLY_TIME |-> s.ASSEMBLY_TIME,
      CNC_PROCESSING_TIME |-> s.CNC_PROCESSING_TIME,
      POWER_OUTAGE_CHANCE |-> s.POWER_OUTAGE_CHANCE ]

RateNames == DOMAIN Rates(State)

TripOf(x, old, was, active, pre, post, r) ==
    IF x \notin was /\ x \in active
    THEN [phase |-> "active", pre |-> pre, post |-> post, clean |-> TRUE,
          by |-> r.last.op, since |-> r.now]
    ELSE IF x \in was /\ x \in active
    THEN [old EXCEPT !.post = post, !.clean = @ /\ post = pre]
    ELSE IF x \in was /\ x \notin active
    THEN [old EXCEPT !.phase = "ended", !.post = post, !.by = r.last.op,
                     !.clean = @ /\ was \ active = {x}]
    ELSE old

Install(r) ==
    /\ InstallFields(r)
    /\ \E pre \in {Rates(State)}, post \in {Rates(r)} :
          trip' = [x \in PersistentStrategies |->
                     TripOf(x, trip[x], adaptation_strategies, r.adaptation_strategies,
                            pre, post, r)]

(***************************************************************************)
(* The factory as the constructor leaves it, with the processes named in   *)
(* started waiting to start, in that order.                                *)
(***************************************************************************)
ProcessRecord(f) ==
    CASE f = "produce_parts" ->
            [f |-> f, pc |-> "start", cnc_req |-> 0, worker_req |-> 0, batch_size |-> 0]
      [] f = "assemble_products" ->
            [f |-> f, pc |-> "start", assembly_req |-> 0, worker_req |-> 0, count |-> 0,
             batch_size |-> 0]
      [] f = "generate_orders" -> [f |-> f, pc |-> "start", available_products |-> 0]
      [] OTHER -> [f |-> f, pc |-> "start"]

Constructed(started) ==
    [ now |-> I(0),
      queue |-> [i \in 1..Len(started) |-> [t |-> I(0), pr |-> URGENT, k |-> "init", p |-> i]],
      procs |-> [i \in 1..Len(started) |-> ProcessRecord(started[i])],
      last |-> [op |-> "init"],
      cmds |-> 0,
      fired |-> 0,
      flaws |-> 0,
      adaptation_strategies |-> {},
      strategy_implementation_dates |-> << >>,
      strategy_expiration_times |-> << >>,
      strategy_weekly_costs |-> 0,
      DURATION |-> DEFAULT_DURATION,
      CNC_FAILURE_CHANCE |-> F(15, 100),
      SUPPLY_CHAIN_ISSUE_CHANCE |-> F(8, 100),
      QUALITY_ISSUE_CHANCE |-> F(7, 100),
      ASSEMBLY_TIME |-> I(30),
      CNC_PROCESSING_TIME |-> I(45),
      POWER_OUTAGE_CHANCE |-> F(1, 10),
      defect_rate |-> F(2, 100),
      costs |-> I(0),
      revenue |-> I(0),
      liquidation_revenue |-> I(0),
      raw_materials |-> INITIAL_RAW_MATERIALS,
      parts_inventory |-> INITIAL_INVENTORY,
      finished_products |-> 0,
      backlog |-> 0,
      total_orders |-> 0,
      fulfilled_orders |-> 0,
      cancelled_orders |-> 0,
      operational_cnc_machines |-> INIT_NUM_CNC_MACHINES,
      available_workers |-> INIT_NUM_WORKERS,
      current_order_rate |-> I(NORMAL_ORDER_RATE),
      supply_chain_disrupted |-> FALSE,
      has_quality_issue |-> FALSE,
      power_outage |-> FALSE,
      order_cancellation_active |-> FALSE,
      maintenance_events |-> 0,
      total_downtime |-> I(0),
      mtbf |-> I(0),
      mttr |-> I(0),
      last_failure_time |-> I(0),
      repair_times |-> << >>,
      NUM_CNC_MACHINES |-> INIT_NUM_CNC_MACHINES,
      NUM_ASSEMBLY_STATIONS |-> INIT_NUM_ASSEMBLY_STATIONS,
      NUM_WORKERS |-> INIT_NUM_WORKERS,
      resources |-> << NewResource("cnc_machines", INIT_NUM_CNC_MACHINES),
                       NewResource("assembly_stations", INIT_NUM_ASSEMBLY_STATIONS),
                       NewResource("qc_stations", NUM_QC_STATIONS),
                       NewResource("workers", INIT_NUM_WORKERS) >>,
      cnc_machines |-> 1,
      assembly_stations |-> 2,
      qc_stations |-> 3,
      workers |-> 4,
      cnc_temperatures |-> [i \in 1..INIT_NUM_CNC_MACHINES |-> "reading"],
      cnc_vibrations |-> [i \in 1..INIT_NUM_CNC_MACHINES |-> "reading"],
      active_cnc_requests |-> 0,
      active_worker_requests |-> 0,
      active_qc_requests |-> 0,
      daily_production |-> 0,
      total_inspected |-> 0,
      defects_found |-> 0,
      false_negatives |-> 0,
      false_positives |-> 0,
      paused |-> FALSE,
      thread |-> "running" ]

InitWith(started) ==
    \E r \in {Constructed(started)} :
        /\ InitFields(r)
        /\ trip = [x \in PersistentStrategies |->
                     [phase |-> "idle", pre |-> Rates(r), post |-> Rates(r),
                      clean |-> TRUE, by |-> "init", since |-> I(0)]]

(***************************************************************************)
(* The steps.  The environment processes the first event of the queue: the *)
(* process it belongs to resumes and runs to its next yield.  H is the     *)
(* horizon, the last instant the model follows the clock to.               *)
(***************************************************************************)
CompoundProcesses == {"assemble_products", "product_to_qc"}

\* The processes that are inside a span, between two yields.
MidSpan == {p \in 1..Len(procs) : procs[p].pc = "shipping"}

Resumes(f, H) ==
    /\ MidSpan = {}
    /\ ~paused
    /\ queue # << >>
    /\ procs[queue[1].p].f = f
    /\ \/ queue[1].k \in {"init", "timeout", "condition"}
       \/ queue[1].k = "request" /\ f \notin CompoundProcesses
    /\ NumLe(queue[1].t, I(H))

Popped(f) ==
    [State EXCEPT !.now = queue[1].t, !.queue = Tail(queue),
                  !.last = [op |-> f, p |-> queue[1].p]]

Run(f, Body(_, _)) ==
    \E u \in {Popped(f)} : \E r \in {Body(u, queue[1].p)} : Install(r)

PublishMqttUpdates(H) ==
    /\ Resumes("publish_mqtt_updates", H)
    /\ Run("publish_mqtt_updates", publish_mqtt_updates)
MonitorMetrics(H) ==
    /\ Resumes("monitor_metrics", H)
    /\ Run("monitor_metrics", monitor_metrics)
LiquidateInventory(H) ==
    /\ Resumes("liquidate_inventory", H)
    /\ Run("liquidate_inventory", liquidate_inventory)
RestorePowerRisk(H) ==
    /\ Resumes("restore_power_risk", H)
    /\ Run("restore_power_risk", restore_power_risk)
RestoreProcessTimes(H) ==
    /\ Resumes("restore_process_times", H)
    /\ Run("restore_process_times", restore_process_times)
EndOvertime(H) ==
    /\ Resumes("end_overtime", H)
    /\ Run("end_overtime", end_overtime)
BulkDelivery(H) ==
    /\ Resumes("bulk_delivery", H)
    /\ Run("bulk_delivery", bulk_delivery)

ProduceParts(H) ==
    /\ Resumes("produce_parts", H)
    /\ Run("produce_parts", produce_parts)
OrderRawMaterials(H) ==
    /\ Resumes("order_raw_materials", H)
    /\ Run("order_raw_materials", order_raw_materials)
QualityControlIssue(H) ==
    /\ Resumes("quality_control_issue", H)
    /\ Run("quality_control_issue", quality_control_issue)

\* The request or release event of a pool is processed.
ConditionCheck(H) ==
    /\ MidSpan = {}
    /\ ~paused
    /\ queue # << >>
    /\ queue[1].k = "request"
    /\ procs[queue[1].p].f \in CompoundProcesses
    /\ NumLe(queue[1].t, I(H))
    /\ \E u \in {Popped("request")} : \E r \in {condition_check(u, queue[1].p)} :
          Install(r)

ReleaseProcessed(H) ==
    /\ MidSpan = {}
    /\ ~paused
    /\ queue # << >>
    /\ queue[1].k = "release"
    /\ NumLe(queue[1].t, I(H))
    /\ \E u \in {Popped("release")} : \E r \in {trigger_put(u, queue[1].res)} :
          Install(r)

\* The steps that draw at random.  flaws counts the draws of the line that
\* went against the product, up to limit.
AssembleProducts(H, limit) ==
    /\ Resumes("assemble_products", H)
    /\ \E spoiled \in BOOLEAN :
          /\ spoiled => /\ procs[queue[1].p].pc = "assembling"
                        /\ has_quality_issue
                        /\ flaws < limit
          /\ \E u \in {[Popped("assemble_products") EXCEPT
                           !.flaws = IF spoiled THEN @ + 1 ELSE @]} :
                \E r \in {assemble_products(u, queue[1].p, spoiled)} : Install(r)

ProductToQc(H, limit) ==
    /\ Resumes("product_to_qc", H)
    /\ \E verdict \in Verdicts :
          /\ verdict # "good" => procs[queue[1].p].pc = "inspection" /\ flaws < limit
          /\ \E u \in {[Popped("product_to_qc") EXCEPT
                           !.flaws = IF verdict # "good" THEN @ + 1 ELSE @]} :
                \E r \in {product_to_qc(u, queue[1].p, verdict)} : Install(r)

OrderVariations == { F(6, 10), F(1, 1) }

GenerateOrders(H) ==
    /\ Resumes("generate_orders", H)
    /\ \E variation \in OrderVariations :
          /\ procs[queue[1].p].pc = "start" => variation = F(1, 1)
          /\ \E u \in {Popped("generate_orders")} :
                \E r \in {generate_orders(u, queue[1].p, variation)} : Install(r)

\* The two parts of the daily span of generate_orders.
GenerateOrdersReads(H) ==
    /\ Resumes("generate_orders", H)
    /\ \E variation \in OrderVariations :
          /\ procs[queue[1].p].pc = "start" => variation = F(1, 1)
          /\ \E u \in {Popped("generate_orders")} :
                \E r \in {generate_orders_reads(u, queue[1].p, variation)} : Install(r)

GenerateOrdersShips ==
    \E p \in MidSpan :
        \E u \in {[State EXCEPT !.last = [op |-> "generate_orders", p |-> p]]} :
            \E r \in {generate_orders_ships(u, p)} : Install(r)

\* fired counts the disruptions started, up to limit; kinds are the kinds
\* that may start.
GenerateDisruptions(H, kinds, limit) ==
    /\ Resumes("generate_disruptions", H)
    /\ \E fire \in SUBSET kinds :
          /\ procs[queue[1].p].pc = "start" => fire = {}
          /\ fired + Cardinality(fire) <= limit
          /\ \E u \in {Popped("generate_disruptions")} :
                \E r \in {generate_disruptions(u, queue[1].p, fire)} : Install(r)

RepairHours == {8, 10}
SpikeMultipliers == { F(3, 1) }
SpikeDays == {1}
SupplyDays == {2}
AbsenceDays == {1}
OutageMinutes == {45, 360}
CancellationRates == { F(1, 2) }
CancellationHours == {4}

\* A process that is drawing nothing takes the first value of the set.
Draws(S, drawing) == IF drawing THEN S ELSE {CHOOSE x \in S : TRUE}

Starting == procs[queue[1].p].pc = "start"

CncMachineFailure(H) ==
    /\ Resumes("cnc_machine_failure", H)
    /\ \E hours \in Draws(RepairHours, Starting) :
          \E u \in {Popped("cnc_machine_failure")} :
             \E r \in {cnc_machine_failure(u, queue[1].p, hours)} : Install(r)

OrderSpike(H) ==
    /\ Resumes("order_spike", H)
    /\ \E spike_multiplier \in Draws(SpikeMultipliers, Starting),
          days \in Draws(SpikeDays, Starting) :
          \E u \in {Popped("order_spike")} :
             \E r \in {order_spike(u, queue[1].p, spike_multiplier, days)} : Install(r)

SupplyChainDisruption(H) ==
    /\ Resumes("supply_chain_disruption", H)
    /\ \E days \in Draws(SupplyDays, Starting) :
          \E u \in {Popped("supply_chain_disruption")} :
             \E r \in {supply_chain_disruption(u, queue[1].p, days)} : Install(r)

WorkerAbsence(H) ==
    /\ Resumes("worker_absence", H)
    /\ \E absent \in Draws(1..procs[queue[1].p].max_absent, Starting),
          days \in Draws(AbsenceDays, Starting) :
          \E u \in {Popped("worker_absence")} :
             \E r \in {worker_absence(u, queue[1].p, absent, days)} : Install(r)

PowerOutageEvent(H) ==
    /\ Resumes("power_outage_event", H)
    /\ \E minutes \in Draws(OutageMinutes, Starting) :
          \E u \in {Popped("power_outage_event")} :
             \E r \in {power_outage_event(u, queue[1].p, minutes)} : Install(r)

OrderCancellation(H) ==
    /\ Resumes("order_cancellation", H)
    /\ \E cancellation_rate \in Draws(CancellationRates, Starting),
          hours \in Draws(CancellationHours, Starting) :
          \E u \in {Popped("order_cancellation")} :
             \E r \in {order_cancellation(u, queue[1].p, cancellation_rate, hours)} :
                Install(r)

(***************************************************************************)
(* A command arrives between two calls of env.run(until=T): the clock      *)
(* stands at the minute T, every event before T is processed and none at   *)
(* T is.                                                                   *)
(***************************************************************************)
CommandOps ==
    { "init", "modify_strategy", "unknown_strategy", "on_mqtt_message",
      "handle_simulation_command", "handle_direct_strategy_command" }

\* While the factory is paused the main loop does not call env.run, and the
\* clock stands where the pause found it.
CommandMayArrive(T) ==
    /\ MidSpan = {}
    /\ thread = "running"
    /\ queue # << >> => NumLe(I(T), queue[1].t)
    /\ \/ NumLt(now, I(T)) /\ ~paused
       \/ now = I(T) /\ last.op \in CommandOps

HandleDirectStrategyCommand(T, strategy_name, trigger, duration, limit) ==
    /\ cmds < limit
    /\ CommandMayArrive(T)
    /\ \E u \in {[State EXCEPT !.now = I(T), !.cmds = @ + 1]} :
         \E r \in {direct_strategy_command(u, strategy_name, trigger, duration)} :
            Install(r)

OnMqttMessage(T, msg, limit) ==
    /\ cmds < limit
    /\ CommandMayArrive(T)
    /\ \E u \in {[State EXCEPT !.now = I(T), !.cmds = @ + 1]} :
         \E r \in {on_mqtt_message(u, msg)} : Install(r)

\* on_mqtt_message runs in the thread loop_start() starts, and nothing keeps
\* that thread out while the main thread is inside env.run: the command is
\* handled inside a span, at the instant the clock shows.
CommandInterleaves(strategy_name, trigger, duration, limit) ==
    /\ cmds < limit
    /\ thread = "running"
    /\ MidSpan # {}
    /\ \E u \in {[State EXCEPT !.cmds = @ + 1]} :
         \E r \in {direct_strategy_command(u, strategy_name, trigger, duration)} :
            Install(r)

(***************************************************************************)
(* The strategy manager on its own: the hourly monitor, the processes the  *)
(* strategies start, and commands for the persistent strategies and for    *)
(* EXPEDITE_MAINTENANCE, some with a duration of 1/16 day.                  *)
(***************************************************************************)
StratMaxTime == 130
StratMaxCmds == 3
StratCmdTimes == {1}
StratDurations == { << >>, << F(1, 16) >>, << F(1, 2880) >> }

InitStrat == InitWith(<< "monitor_metrics" >>)

NextStrat ==
    \/ MonitorMetrics(StratMaxTime)
    \/ LiquidateInventory(StratMaxTime)
    \/ \E T \in StratCmdTimes, x \in PersistentStrategies, trigger \in BOOLEAN,
          duration \in StratDurations :
            /\ trigger \/ duration = << >>
            /\ duration # << >> => x = "PREVENTIVE_MAINTENANCE"
            /\ HandleDirectStrategyCommand(T, x, trigger, duration, StratMaxCmds)
    \/ \E T \in StratCmdTimes :
            HandleDirectStrategyCommand(T, "EXPEDITE_MAINTENANCE", TRUE, << >>, StratMaxCmds)

SpecStrat == InitStrat /\ [][NextStrat]_vars

(***************************************************************************)
(* Properties of the strategy manager.                                     *)
(***************************************************************************)
FactoryUnchanged ==
    UNCHANGED << queue, procs, stratVars, rateVars, finVars, ledgerVars, statusVars,
                 maintVars, poolVars, countVars >>

CommandStep == cmds' = cmds + 1 /\ last'.op = "modify_strategy"

CommandStrategy == StrategyList[last'.strategy_idx + 1]

MultiplicativeStrategies ==
    { "PREVENTIVE_MAINTENANCE", "SUPPLIER_DIVERSIFICATION", "QUALITY_MONITORING",
      "FLEXIBLE_WORKFORCE", "PEAK_LOAD_OPTIMIZATION", "KPI_MONITORING" }

\* C5: a persistent strategy with a multiplicative effect that was activated
\* and then deactivated, with no other change of the rate parameters in
\* between, leaves every rate parameter equal to its value before the
\* activation.
C5_RoundTripExact ==
    \A x \in MultiplicativeStrategies :
        trip[x].phase = "ended" /\ trip[x].clean
            => \A n \in RateNames : NumEq(trip[x].post[n], trip[x].pre[n])

\* C7: a command that activates a persistent strategy already active, or
\* deactivates a persistent strategy that is not active, changes nothing in
\* the factory: no cost, no expiration time, no weekly cost, no rate
\* parameter.
C7_Idempotent ==
    [][ /\ CommandStep
        /\ CommandStrategy \in PersistentStrategies
        /\ last'.activate <=> CommandStrategy \in adaptation_strategies
        => FactoryUnchanged ]_vars

\* A command to activate a persistent strategy has found it active and has
\* answered that nothing changed.
C7_Witness ==
    /\ last.op = "modify_strategy"
    /\ last.result = "No change (strategy already active)"
    /\ StrategyList[last.strategy_idx + 1] \in adaptation_strategies

RECURSIVE SumWeekly(_)
SumWeekly(S) ==
    IF S = {} THEN 0
    ELSE LET x == CHOOSE x \in S : TRUE IN WEEKLY[x] + SumWeekly(S \ {x})

C8_NoExpiredAfterTick ==
    last.op = "monitor_metrics"
        => \A i \in 1..Len(strategy_expiration_times) :
              NumLt(now, strategy_expiration_times[i].val)

C8_RevertedOnce ==
    /\ {strategy_expiration_times[i].key : i \in 1..Len(strategy_expiration_times)}
          = adaptation_strategies
    /\ strategy_weekly_costs = SumWeekly(adaptation_strategies)

C8_PreventiveMaintenance ==
    LET t == trip["PREVENTIVE_MAINTENANCE"] IN
    /\ t.phase = "active" /\ t.clean
          => NumEq(CNC_FAILURE_CHANCE, NumMul(t.pre.CNC_FAILURE_CHANCE, Lit_0_2))
    /\ t.phase = "ended" /\ t.clean /\ t.by = "monitor_metrics"
          => NumEq(t.post.CNC_FAILURE_CHANCE, t.pre.CNC_FAILURE_CHANCE)

C8_RemovedOnlyWhenDue ==
    \A x \in PersistentStrategies :
        x \in adaptation_strategies /\ x \notin adaptation_strategies'
            => \/ CommandStep /\ ~last'.activate /\ CommandStrategy = x
               \/ /\ last'.op = "monitor_metrics"
                  /\ NumLe(DictGet(strategy_expiration_times, x), now')

\* C8: a persistent strategy leaves the active set only by a deactivation
\* command or at an hourly tick at or after its expiration time; no tick
\* leaves an expired strategy active; each strategy's weekly cost and
\* expiration entry are there exactly while it is active; and
\* PREVENTIVE_MAINTENANCE keeps CNC_FAILURE_CHANCE at 0.2 times its value
\* before the activation while it is active and nothing else changes the
\* rates, and at that value again once it has expired.
C8_AutomaticExpiration ==
    /\ [](C8_NoExpiredAfterTick /\ C8_RevertedOnce /\ C8_PreventiveMaintenance)
    /\ [][C8_RemovedOnlyWhenDue]_vars

(***************************************************************************)
(* The timed effects: the one-shot strategies that change a parameter for  *)
(* a while, UPGRADE_ASSEMBLY, and the two persistent strategies that       *)
(* change the same parameters exactly, followed until every restore is     *)
(* due.                                                                    *)
(***************************************************************************)
TimedMaxTime == 2950
TimedMaxCmds == 2
TimedCmdTimes == {1, 61}
TimedOneShots ==
    { "EXPEDITE_MAINTENANCE", "INSTALL_BACKUP_GENERATOR", "REALLOCATE_WORKERS",
      "SCHEDULE_OVERTIME", "UPGRADE_ASSEMBLY" }
TimedPersistent == { "PREVENTIVE_MAINTENANCE", "PEAK_LOAD_OPTIMIZATION" }

InitTimed == InitWith(<< "monitor_metrics" >>)

NextTimed ==
    \/ MonitorMetrics(TimedMaxTime)
    \/ RestorePowerRisk(TimedMaxTime)
    \/ RestoreProcessTimes(TimedMaxTime)
    \/ EndOvertime(TimedMaxTime)
    \/ \E T \in TimedCmdTimes, x \in TimedOneShots :
            HandleDirectStrategyCommand(T, x, TRUE, << >>, TimedMaxCmds)
    \/ \E T \in TimedCmdTimes, x \in TimedPersistent, trigger \in BOOLEAN,
          duration \in StratDurations :
            /\ trigger \/ duration = << >>
            /\ HandleDirectStrategyCommand(T, x, trigger, duration, TimedMaxCmds)

SpecTimed == InitTimed /\ [][NextTimed]_vars

RestoreProcesses ==
    { "restore_power_risk", "restore_process_times", "end_overtime" }

AllRestoresDone ==
    \A p \in 1..Len(procs) : procs[p].f \in RestoreProcesses => procs[p].pc = "done"

RECURSIVE Upgraded(_, _)
Upgraded(time, upgrades) ==
    IF upgrades = 0 THEN time ELSE Upgraded(NumMul(time, Lit_0_7), upgrades - 1)

\* C6: once no persistent strategy is active and every scheduled restore has
\* run, CNC_FAILURE_CHANCE, POWER_OUTAGE_CHANCE and CNC_PROCESSING_TIME have
\* their initial values and ASSEMBLY_TIME its initial value scaled by 0.7
\* once for each UPGRADE_ASSEMBLY.
C6_TimedEffectsRevert ==
    adaptation_strategies = {} /\ AllRestoresDone
        => /\ NumEq(CNC_FAILURE_CHANCE, F(15, 100))
           /\ NumEq(POWER_OUTAGE_CHANCE, F(1, 10))
           /\ NumEq(CNC_PROCESSING_TIME, I(45))
           /\ NumEq(ASSEMBLY_TIME,
                    Upgraded(I(30), NUM_ASSEMBLY_STATIONS - INIT_NUM_ASSEMBLY_STATIONS))

(***************************************************************************)
(* The production line and its pools: the five producers and the four      *)
(* assemblers the constructor starts, the inspections they start, and the  *)
(* commands that change a pool's size.                                     *)
(***************************************************************************)
PoolMaxTime == 700
PoolMaxCmds == 2
PoolMaxFlaws == 1
PoolCmdTimes == {1}
PoolStrategies ==
    { "PURCHASE_CNC_MACHINE", "SELL_CNC_MACHINE", "HIRE_WORKERS", "REDUCE_WORKFORCE",
      "UPGRADE_ASSEMBLY" }

TheLine ==
    [i \in 1..INIT_NUM_CNC_MACHINES |-> "produce_parts"]
        \o [i \in 1..INIT_NUM_ASSEMBLY_STATIONS |-> "assemble_products"]

InitPool == InitWith(TheLine)

NextPool ==
    \/ ProduceParts(PoolMaxTime)
    \/ AssembleProducts(PoolMaxTime, PoolMaxFlaws)
    \/ ProductToQc(PoolMaxTime, PoolMaxFlaws)
    \/ ConditionCheck(PoolMaxTime)
    \/ ReleaseProcessed(PoolMaxTime)
    \/ \E T \in PoolCmdTimes, x \in PoolStrategies :
            HandleDirectStrategyCommand(T, x, TRUE, << >>, PoolMaxCmds)

SpecPool == InitPool /\ [][NextPool]_vars

Pools == {"cnc_machines", "assembly_stations", "qc_stations", "workers"}

\* The pool object the factory's attribute refers to now.
Current(pool) ==
    CASE pool = "cnc_machines" -> cnc_machines
      [] pool = "assembly_stations" -> assembly_stations
      [] pool = "qc_stations" -> qc_stations
      [] pool = "workers" -> workers

Capacity(pool) == resources[Current(pool)].capacity

RECURSIVE Total(_, _, _)
Total(field, pool, i) ==
    IF i = 0 THEN 0
    ELSE Total(field, pool, i - 1)
            + (IF resources[i].pool # pool THEN 0
               ELSE IF field = "users" THEN Len(resources[i].users)
               ELSE resources[i].grants)

\* The slots of a pool that are held, and those ever granted, over every
\* object made for it.
Held(pool) == Total("users", pool, Len(resources))
Grants(pool) == Total("grants", pool, Len(resources))

\* C1: in every state each pool has no more slots held than its capacity.
C1_HeldWithinCapacity == \A pool \in Pools : Held(pool) <= Capacity(pool)

ShrinkStep ==
    /\ CommandStep
    /\ CommandStrategy \in {"SELL_CNC_MACHINE", "REDUCE_WORKFORCE"}

C3_NoEviction ==
    ShrinkStep
        => \A i \in 1..Len(resources) :
              /\ resources'[i].users = resources[i].users
              /\ resources'[i].grants = resources[i].grants

\* The slots of a pool still held from before its last change of size.
Former(pool) == Held(pool) - Len(resources[Current(pool)].users)

C3_NoGrantAboveCapacity ==
    \A pool \in {"cnc_machines", "workers"} :
        Former(pool) > Capacity(pool) /\ Grants(pool)' > Grants(pool)
            => Held(pool)' <= Capacity(pool)'

\* C3: SELL_CNC_MACHINE and REDUCE_WORKFORCE take no slot from its holder,
\* and while more slots are held from before the change than the pool's new
\* capacity, a slot is granted only in a step that leaves no more slots held
\* than the capacity.
C3_ShrinkKeepsHolders == [][C3_NoEviction /\ C3_NoGrantAboveCapacity]_vars

FirstSlot(p) == IF procs[p].f = "assemble_products" THEN "assembly_req" ELSE "qc_req"

Holds(p, slot) ==
    procs[p][slot] # 0 /\ \E i \in 1..Len(resources[procs[p][slot]].users) :
        resources[procs[p][slot]].users[i] = [p |-> p, slot |-> slot]

Waits(p, slot) ==
    procs[p][slot] # 0 /\ \E i \in 1..Len(resources[procs[p][slot]].put_queue) :
        resources[procs[p][slot]].put_queue[i] = [p |-> p, slot |-> slot]

\* C4: no assembler and no inspection holds one of its two slots while its
\* request for the other waits.
C4_AllOrNothing ==
    \A p \in 1..Len(procs) :
        procs[p].f \in CompoundProcesses
            => /\ ~(Holds(p, FirstSlot(p)) /\ Waits(p, "worker_req"))
               /\ ~(Holds(p, "worker_req") /\ Waits(p, FirstSlot(p)))

(***************************************************************************)
(* The disruptions: the process that starts them every six hours, the      *)
(* daily orders, and the two commands that end a disruption's effect       *)
(* early.                                                                  *)
(***************************************************************************)
DisrMaxTime == 1500
DisrMaxCmds == 1
DisrMaxFired == 2
DisrCmdTimes == {361}
DisrStrategies == { "EXPEDITE_MAINTENANCE", "INSTALL_BACKUP_GENERATOR" }

Kinds == {DisruptionKinds[i] : i \in 1..Len(DisruptionKinds)}

InitDisr == InitWith(<< "generate_orders", "generate_disruptions" >>)

NextDisr ==
    \/ GenerateOrders(DisrMaxTime)
    \/ GenerateDisruptions(DisrMaxTime, Kinds, DisrMaxFired)
    \/ CncMachineFailure(DisrMaxTime)
    \/ OrderSpike(DisrMaxTime)
    \/ SupplyChainDisruption(DisrMaxTime)
    \/ WorkerAbsence(DisrMaxTime)
    \/ QualityControlIssue(DisrMaxTime)
    \/ PowerOutageEvent(DisrMaxTime)
    \/ OrderCancellation(DisrMaxTime)
    \/ RestorePowerRisk(DisrMaxTime)
    \/ \E T \in DisrCmdTimes, x \in DisrStrategies :
            HandleDirectStrategyCommand(T, x, TRUE, << >>, DisrMaxCmds)

SpecDisr == InitDisr /\ [][NextDisr]_vars

\* The disruptions of a kind whose effect is applied and not yet taken back.
Active(kind) == {p \in 1..Len(procs) : procs[p].f = kind /\ procs[p].pc = "active"}

\* C9: of each kind of disruption at most one is active at any time.
C9_OneActivePerKind == \A kind \in Kinds : Cardinality(Active(kind)) <= 1

C10_NotBeforeRepaired ==
    \A p \in Active("cnc_machine_failure") :
        operational_cnc_machines < procs[p].started_with

FailureStarts ==
    /\ last'.op = "cnc_machine_failure"
    /\ procs[last'.p].pc = "start"
    /\ operational_cnc_machines > 0

C10_FailureStep ==
    FailureStarts
        => /\ operational_cnc_machines' = operational_cnc_machines - 1
           /\ maintenance_events' = maintenance_events + 1
           /\ repair_times' = Append(repair_times, procs'[last'.p].repair_time)
           /\ total_downtime' = NumAdd(total_downtime, procs'[last'.p].repair_time)
           /\ mttr' = NumDiv(Sum(repair_times'), I(Len(repair_times')))
           /\ procs'[last'.p].pc = "active"

C10_RepairStep ==
    last'.op = "cnc_machine_failure" /\ procs[last'.p].pc = "active"
        => /\ operational_cnc_machines' = operational_cnc_machines + 1
           /\ NumEq(now', NumAdd(procs[last'.p].since, procs[last'.p].repair_time))

C10_OncePerFailure ==
    ~FailureStarts => UNCHANGED << maintenance_events, repair_times, mttr >>

\* C10: a CNC failure that finds n > 0 machines running leaves n - 1, and
\* counts itself, its repair time and the new mean repair time, in the step
\* in which it starts; no other step touches the count of failures or the
\* repair times; the end of the repair puts one machine back; and while a
\* failure's repair lasts fewer than n machines are running.
C10_FailureAndRepair ==
    /\ []C10_NotBeforeRepaired
    /\ [][C10_FailureStep /\ C10_RepairStep /\ C10_OncePerFailure]_vars

(***************************************************************************)
(* The ledger: the production line, the daily orders and the deliveries    *)
(* they order, the disruptions that write a counter of materials, parts,   *)
(* products or orders, and the commands that do, followed until the        *)
(* producers have used up the raw materials.  chance counts the random     *)
(* draws that went against the factory: disruptions started and flaws of   *)
(* the line.                                                               *)
(***************************************************************************)
LedgerMaxTime == 4100
LedgerMaxCmds == 1
LedgerMaxChance == 1
LedgerCmdTimes == {1441}
LedgerStrategies == { "INVENTORY_LIQUIDATION", "CANCEL_PENDING_ORDERS", "OUTSOURCING" }
LedgerKinds == { "order_spike", "quality_control_issue", "order_cancellation" }

InitLedger == InitWith(<< "generate_orders", "generate_disruptions" >> \o TheLine)

NextLedger ==
    \/ GenerateOrders(LedgerMaxTime)
    \/ OrderRawMaterials(LedgerMaxTime)
    \/ GenerateDisruptions(LedgerMaxTime, LedgerKinds, LedgerMaxChance - flaws)
    \/ ProduceParts(LedgerMaxTime)
    \/ AssembleProducts(LedgerMaxTime, LedgerMaxChance - fired)
    \/ ProductToQc(LedgerMaxTime, LedgerMaxChance - fired)
    \/ ConditionCheck(LedgerMaxTime)
    \/ ReleaseProcessed(LedgerMaxTime)
    \/ LiquidateInventory(LedgerMaxTime)
    \/ OrderSpike(LedgerMaxTime)
    \/ QualityControlIssue(LedgerMaxTime)
    \/ OrderCancellation(LedgerMaxTime)
    \/ \E T \in LedgerCmdTimes, x \in LedgerStrategies :
            HandleDirectStrategyCommand(T, x, TRUE, << >>, LedgerMaxCmds)

SpecLedger == InitLedger /\ [][NextLedger]_vars

\* C2: in every state raw_materials, parts_inventory, finished_products,
\* backlog, cancelled_orders, total_orders and fulfilled_orders are at least 0.
C2_LedgerNonNegative ==
    /\ raw_materials >= 0
    /\ parts_inventory >= 0
    /\ finished_products >= 0
    /\ backlog >= 0
    /\ cancelled_orders >= 0
    /\ total_orders >= 0
    /\ fulfilled_orders >= 0

\* The producers have used up the raw materials, the last batches cut to
\* what was left, after orders were shipped.
C2_Witness ==
    /\ raw_materials = 0
    /\ fulfilled_orders > 0
    /\ parts_inventory < INITIAL_INVENTORY

(***************************************************************************)
(* Command ingress: the line and the daily orders in the main thread, and  *)
(* the commands the MQTT client's thread handles, between two calls of     *)
(* env.run or inside the daily span of generate_orders.                    *)
(***************************************************************************)
IngressMaxTime == 1500
IngressMaxCmds == 1
IngressMaxFlaws == 1
IngressCmdTimes == {1441}
IngressStrategies == { "CANCEL_PENDING_ORDERS", "INVENTORY_LIQUIDATION" }

InitIngress == InitWith(<< "generate_orders" >> \o TheLine)

NextIngress ==
    \/ GenerateOrdersReads(IngressMaxTime)
    \/ GenerateOrdersShips
    \/ ProduceParts(IngressMaxTime)
    \/ AssembleProducts(IngressMaxTime, IngressMaxFlaws)
    \/ ProductToQc(IngressMaxTime, IngressMaxFlaws)
    \/ ConditionCheck(IngressMaxTime)
    \/ ReleaseProcessed(IngressMaxTime)
    \/ LiquidateInventory(IngressMaxTime)
    \/ \E T \in IngressCmdTimes, x \in IngressStrategies :
            HandleDirectStrategyCommand(T, x, TRUE, << >>, IngressMaxCmds)
    \/ \E x \in IngressStrategies :
            CommandInterleaves(x, TRUE, << >>, IngressMaxCmds)

SpecIngress == InitIngress /\ [][NextIngress]_vars

\* What a span has read of the ledger is still so when it writes.
SpanReadsCurrent ==
    \A p \in MidSpan : procs[p].available_products = Min(finished_products, backlog)

\* C20: no command is handled while a process is inside a span between two
\* of its yields, and what the span has read is unchanged when it writes.
C20_CommandsAtomic ==
    /\ []SpanReadsCurrent
    /\ [][CommandStep => MidSpan = {}]_vars

(***************************************************************************)
(* The producers on their own: the five produce_parts processes run the    *)
(* raw materials down, with commands that add materials or change the      *)
(* processing time.                                                        *)
(***************************************************************************)
PartsMaxTime == 4300
PartsMaxCmds == 1
PartsCmdTimes == {1, 4051}
PartsStrategies == { "LEAN_MANUFACTURING", "EMERGENCY_MATERIALS", "REALLOCATE_WORKERS" }

InitParts == InitWith([i \in 1..INIT_NUM_CNC_MACHINES |-> "produce_parts"])

NextParts ==
    \/ ProduceParts(PartsMaxTime)
    \/ ReleaseProcessed(PartsMaxTime)
    \/ RestoreProcessTimes(PartsMaxTime)
    \/ \E T \in PartsCmdTimes, x \in PartsStrategies :
            HandleDirectStrategyCommand(T, x, TRUE, << >>, PartsMaxCmds)

SpecParts == InitParts /\ [][NextParts]_vars

Producers == {p \in 1..Len(procs) : procs[p].f = "produce_parts"}

\* Producer p, holding a CNC slot and a worker slot, starts a batch.
Debits(p) == procs[p].pc = "worker_req" /\ procs'[p].pc = "processing"

\* Producer p comes back from the processing wait.
Credits(p) == procs[p].pc = "processing" /\ procs'[p].pc # "processing"

\* The wait of a batch of b parts that starts now.
ProcessTime(b) ==
    IF "LEAN_MANUFACTURING" \in adaptation_strategies
    THEN NumMul(NumMul(CNC_PROCESSING_TIME, I(b)), Lit_0_8)
    ELSE NumMul(CNC_PROCESSING_TIME, I(b))

C11_DebitStep ==
    \A p \in Producers :
        Debits(p) =>
            \E b \in {Min(15, raw_materials)} :
                /\ raw_materials' = raw_materials - b
                /\ raw_materials = INITIAL_RAW_MATERIALS => b = 15
                /\ procs'[p].batch_size = b
                /\ parts_inventory' = parts_inventory
                /\ \E i \in 1..Len(queue') :
                        queue'[i] = [t |-> NumAdd(now', ProcessTime(b)), pr |-> NORMAL,
                                     k |-> "timeout", p |-> p]

C11_CreditStep ==
    \A p \in Producers :
        Credits(p) =>
            /\ parts_inventory' = parts_inventory + procs[p].batch_size
            /\ raw_materials' = raw_materials
            /\ queue[1] = [t |-> now', pr |-> NORMAL, k |-> "timeout", p |-> p]

\* Raw materials go down, and parts up, in the steps of a batch only.
C11_NoOtherStep ==
    /\ raw_materials' < raw_materials => \E p \in Producers : Debits(p)
    /\ parts_inventory' > parts_inventory => \E p \in Producers : Credits(p)

OrdersMaxTime == 5800
OrdersMaxCmds == 2
OrdersCmdTimes == {1441, 2881, 5761}

InitOrders == InitWith(<< "generate_orders" >>)

NextOrders ==
    \/ GenerateOrders(OrdersMaxTime)
    \/ \E T \in OrdersCmdTimes :
            HandleDirectStrategyCommand(T, "CANCEL_PENDING_ORDERS", TRUE, << >>,
                                        OrdersMaxCmds)

SpecOrders == InitOrders /\ [][NextOrders]_vars

CancelStep == CommandStep /\ last'.activate /\ CommandStrategy = "CANCEL_PENDING_ORDERS"

\* The step cancels n orders and collects the fee of 15% of 1500 for each.
Cancels(n) ==
    /\ backlog' = backlog - n
    /\ cancelled_orders' = cancelled_orders + n
    /\ NumEq(revenue', NumAdd(revenue, I(225 * n)))
    /\ UNCHANGED << finished_products, total_orders, fulfilled_orders >>

\* C12 as stated: CANCEL_PENDING_ORDERS with backlog B cancels floor(0.4 * B)
\* orders, whatever B is.
C12_CancelsTwoFifths == [][CancelStep => Cancels((2 * backlog) \div 5)]_vars

\* C12: CANCEL_PENDING_ORDERS with backlog B > 10 takes floor(0.4 * B) orders
\* from the backlog, adds them to cancelled_orders and adds 1500 * 0.15 for
\* each to the revenue (B = 100: 40 orders, 9000); with B <= 10 it cancels
\* nothing.  finished_products, total_orders and fulfilled_orders are
\* unchanged.
C12_CancelsAboveTen ==
    [][CancelStep => Cancels(IF backlog > 10 THEN (2 * backlog) \div 5 ELSE 0)]_vars

\* 40 of 100 orders have been cancelled.
C12_Witness ==
    /\ last.op = "modify_strategy"
    /\ StrategyList[last.strategy_idx + 1] = "CANCEL_PENDING_ORDERS"
    /\ backlog = 60
    /\ cancelled_orders = 40
    /\ NumEq(revenue, I(9000))

(***************************************************************************)
(* The two persistent strategies that scale CNC_FAILURE_CHANCE, switched   *)
(* on and off by a longer series of commands, PREVENTIVE_MAINTENANCE some   *)
(* of the times with a duration of 1/16 day, and the hourly monitor that    *)
(* expires it.                                                             *)
(***************************************************************************)
ExpiryMaxTime == 130
ExpiryMaxCmds == 8
ExpiryCmdTimes == {1}
ExpiryStrategies == { "PREVENTIVE_MAINTENANCE", "KPI_MONITORING" }
ExpiryDurations == { << >>, << F(1, 16) >> }

InitExpiry == InitWith(<< "monitor_metrics" >>)

NextExpiry ==
    \/ MonitorMetrics(ExpiryMaxTime)
    \/ \E T \in ExpiryCmdTimes, x \in ExpiryStrategies, trigger \in BOOLEAN,
          duration \in ExpiryDurations :
            /\ trigger \/ duration = << >>
            /\ duration # << >> => x = "PREVENTIVE_MAINTENANCE"
            /\ HandleDirectStrategyCommand(T, x, trigger, duration, ExpiryMaxCmds)

SpecExpiry == InitExpiry /\ [][NextExpiry]_vars

(***************************************************************************)
(* The sizes of the CNC pool and of the worker pool: the five producers    *)
(* and a series of commands that buy and sell machines and hire and lay    *)
(* off workers.                                                            *)
(***************************************************************************)
SizesMaxTime == 700
SizesMaxCmds == 5
SizesCmdTimes == {1}
SizesStrategies ==
    { "PURCHASE_CNC_MACHINE", "SELL_CNC_MACHINE", "HIRE_WORKERS", "REDUCE_WORKFORCE" }

InitSizes == InitWith([i \in 1..INIT_NUM_CNC_MACHINES |-> "produce_parts"])

NextSizes ==
    \/ ProduceParts(SizesMaxTime)
    \/ ReleaseProcessed(SizesMaxTime)
    \/ \E T \in SizesCmdTimes, x \in SizesStrategies :
            HandleDirectStrategyCommand(T, x, TRUE, << >>, SizesMaxCmds)

SpecSizes == InitSizes /\ [][NextSizes]_vars

Executes(strategy) == CommandStep /\ last'.activate /\ CommandStrategy = strategy

C13_LastSaleRejected ==
    Executes("SELL_CNC_MACHINE") /\ NUM_CNC_MACHINES = 1
        => /\ UNCHANGED << NUM_CNC_MACHINES, operational_cnc_machines, cnc_temperatures,
                           cnc_vibrations, cnc_machines, resources, revenue >>
           /\ last'.level = "WARNING"

\* C13: SELL_CNC_MACHINE executed with one machine left changes neither the
\* number of machines, nor the CNC pool and its capacity, nor the number of
\* machines running, nor the temperature and vibration arrays, and logs a
\* warning; the factory has at least one CNC machine, and a CNC pool of at
\* least one slot, in every state.
C13_LastMachineKept ==
    /\ [][C13_LastSaleRejected]_vars
    /\ [](NUM_CNC_MACHINES >= 1 /\ Capacity("cnc_machines") >= 1)

\* The sale of the last machine has been refused.
C13_Witness ==
    /\ last.op = "modify_strategy"
    /\ StrategyList[last.strategy_idx + 1] = "SELL_CNC_MACHINE"
    /\ last.level = "WARNING"
    /\ NUM_CNC_MACHINES = 1
    /\ Capacity("cnc_machines") = 1

C14_Hire ==
    Executes("HIRE_WORKERS")
        => /\ Capacity("workers")' = Capacity("workers") + 3
           /\ NUM_WORKERS' = NUM_WORKERS + 3

C14_Reduce ==
    Executes("REDUCE_WORKFORCE")
        => IF Capacity("workers") > 3
           THEN /\ Capacity("workers")' = Capacity("workers") - Min(3, Capacity("workers") - 3)
                /\ NUM_WORKERS' = Capacity("workers")'
           ELSE UNCHANGED << NUM_WORKERS, available_workers, workers, resources >>

\* C14: every HIRE_WORKERS adds 3 to the capacity of the worker pool, every
\* REDUCE_WORKFORCE takes min(3, capacity - 3) from it and changes nothing
\* when the capacity is 3, and the capacity is at least 3 in every state.
C14_WorkerCapacity ==
    /\ [][C14_Hire /\ C14_Reduce]_vars
    /\ [](Capacity("workers") >= 3 /\ NUM_WORKERS = Capacity("workers"))

\* A layoff has been refused at the minimum of 3 workers.
C14_Witness ==
    /\ last.op = "modify_strategy"
    /\ StrategyList[last.strategy_idx + 1] = "REDUCE_WORKFORCE"
    /\ last.level = "WARNING"
    /\ Capacity("workers") = 3

(***************************************************************************)
(* process_backlog in the runs of SpecLedger.                              *)
(***************************************************************************)
C15_Transfer ==
    "before" \in DOMAIN last
        => \E n \in {Min(last.before.finished_products, last.before.backlog)} :
              /\ finished_products = last.before.finished_products - n
              /\ backlog = last.before.backlog - n
              /\ fulfilled_orders = last.before.fulfilled_orders + n
              /\ NumEq(revenue, NumAdd(last.before.revenue, I(1500 * n)))
              /\ raw_materials = last.before.raw_materials
              /\ parts_inventory = last.before.parts_inventory
              /\ cancelled_orders = last.before.cancelled_orders
              /\ total_orders = last.before.total_orders

\* An inspection ends.
QcUnitCompletes ==
    \E p \in 1..Len(procs) :
        /\ procs[p].f = "product_to_qc"
        /\ procs[p].pc = "inspection"
        /\ procs'[p].pc = "done"

\* generate_orders records a day's orders.
DailyBatch ==
    \E p \in 1..Len(procs) :
        /\ procs[p].f = "generate_orders"
        /\ procs[p].pc = "day"
        /\ last' = [op |-> "generate_orders", p |-> p] \/ total_orders' # total_orders

C15_Invoked ==
    /\ QcUnitCompletes =>
          /\ "before" \in DOMAIN last'
          /\ last'.before.finished_products \in {finished_products, finished_products + 1}
          /\ last'.before.backlog = backlog
    /\ DailyBatch =>
          /\ "before" \in DOMAIN last'
          /\ last'.before.total_orders = total_orders'
          /\ last'.before.backlog = backlog + (total_orders' - total_orders)
          /\ last'.before.finished_products = finished_products

\* C15: process_backlog moves n = min(finished_products, backlog) units:
\* finished_products and backlog go down by n, fulfilled_orders up by n and
\* the revenue up by 1500 * n, and raw_materials, parts_inventory,
\* cancelled_orders and total_orders stay; it runs at the end of every
\* inspection, after the verdict, and after every day's orders are recorded.
C15_ProcessBacklog == []C15_Transfer /\ [][C15_Invoked]_vars

\* A part of the backlog has been shipped: fewer products than orders.
C15_Witness ==
    /\ "before" \in DOMAIN last
    /\ last.before.finished_products > 0
    /\ last.before.backlog > last.before.finished_products
    /\ fulfilled_orders > last.before.finished_products

(***************************************************************************)
(* The one-shot strategies in the runs of SpecStrat.                       *)
(***************************************************************************)
C16_NeverActive ==
    /\ adaptation_strategies \cap ONE_TIME_STRATEGIES = {}
    /\ \A i \in 1..Len(strategy_expiration_times) :
          strategy_expiration_times[i].key \notin ONE_TIME_STRATEGIES

\* What EXPEDITE_MAINTENANCE is to do: repair the machines that are down,
\* or, with none down, scale CNC_FAILURE_CHANCE by 0.3 and start the process
\* that restores it.
C16_Expedited ==
    IF operational_cnc_machines < NUM_CNC_MACHINES
    THEN operational_cnc_machines' = NUM_CNC_MACHINES
    ELSE /\ NumEq(CNC_FAILURE_CHANCE', NumMul(CNC_FAILURE_CHANCE, Lit_0_3))
         /\ Len(procs') = Len(procs) + 1

C16_Executed ==
    \A x \in ONE_TIME_STRATEGIES :
        Executes(x)
            => /\ NumEq(costs', NumAdd(costs, I(IMPLEMENTATION[x])))
               /\ last'.result = "One-time strategy executed"
               /\ x = "EXPEDITE_MAINTENANCE" => C16_Expedited
               /\ adaptation_strategies' = adaptation_strategies

C16_NoDeactivation ==
    CommandStep /\ ~last'.activate /\ CommandStrategy \in ONE_TIME_STRATEGIES
        => FactoryUnchanged

\* C16: a one-shot strategy is never in the active set and never has an
\* expiration time; each of its activations charges its implementation cost
\* once and carries out its effect once, whatever was executed before; a
\* command that deactivates it changes nothing.
C16_OneShot ==
    /\ []C16_NeverActive
    /\ [][C16_Executed /\ C16_NoDeactivation]_vars

(***************************************************************************)
(* The activation of a persistent strategy in the runs of SpecStrat, where *)
(* PREVENTIVE_MAINTENANCE is asked for with no duration, with 1/16 day (90  *)
(* minutes) and with 1/2880 day (half a minute).                           *)
(***************************************************************************)
ActivatesInactive(x) ==
    /\ CommandStep
    /\ last'.activate
    /\ CommandStrategy = x
    /\ x \notin adaptation_strategies

\* The duration of the activation: the one the command supplies, or the
\* strategy's default.
C17_Duration(x) ==
    IF last'.custom_duration # << >> THEN last'.custom_duration[1]
    ELSE DEFAULT_DURATION[x]

C17_Activated ==
    \A x \in PersistentStrategies :
        ActivatesInactive(x)
            => /\ adaptation_strategies' = adaptation_strategies \cup {x}
               /\ NumEq(costs', NumAdd(costs, I(IMPLEMENTATION[x])))
               /\ strategy_weekly_costs' = strategy_weekly_costs + WEEKLY[x]
               /\ DictHas(strategy_expiration_times', x)
               /\ NumEq(DictGet(strategy_expiration_times', x),
                        NumAdd(now', I(C17_Duration(x))))
               /\ DURATION' = DURATION

\* C17: the activation of a persistent strategy that is not active adds it
\* to the active set, charges its implementation cost once, adds its weekly
\* cost to the recurring total and sets its expiration time to now plus the
\* duration the command supplies, or plus the default duration when it
\* supplies none; the table of default durations is as before, and as the
\* constructor made it.
C17_Activation == [][C17_Activated]_vars /\ [](DURATION = DEFAULT_DURATION)

(***************************************************************************)
(* Two weeks of the hourly monitor, with commands for two persistent       *)
(* strategies before the first tick, after it and in the second week.      *)
(***************************************************************************)
WeeklyMaxTime == 20200
WeeklyMaxCmds == 2
WeeklyCmdTimes == {0, 1, 10081}
WeeklyStrategies == { "PREVENTIVE_MAINTENANCE", "KPI_MONITORING" }

InitWeekly == InitWith(<< "monitor_metrics" >>)

NextWeekly ==
    \/ MonitorMetrics(WeeklyMaxTime)
    \/ \E T \in WeeklyCmdTimes, x \in WeeklyStrategies, trigger \in BOOLEAN :
            HandleDirectStrategyCommand(T, x, trigger, << >>, WeeklyMaxCmds)

SpecWeekly == InitWeekly /\ [][NextWeekly]_vars

\* An hourly tick of monitor_metrics.
TickStep == last'.op = "monitor_metrics"

Week == 7 * 24 * 60

\* Ticks come every 60 minutes from minute 0 on, so that one and only one
\* falls in the first hour of each 7-day period.
C18_Hourly ==
    TickStep
        => /\ NumInt(now') % 60 = 0
           /\ \E i \in 1..Len(queue') :
                 /\ procs'[queue'[i].p].f = "monitor_metrics"
                 /\ NumEq(queue'[i].t, NumAdd(now', I(60)))

\* The tick charges the weekly costs of the strategies active when it comes.
Charged == NumEq(costs', NumAdd(costs, I(SumWeekly(adaptation_strategies))))

LiveMaxTime == 450
LiveMaxCmds == 2
LiveMaxFlaws == 1
LiveCmdTimes == {151}
LiveEarly == 200
LiveWatched == 16
LiveStrategies ==
    { "PURCHASE_CNC_MACHINE", "SELL_CNC_MACHINE", "HIRE_WORKERS", "REDUCE_WORKFORCE" }

InitLive == InitWith(TheLine)

LiveEvents ==
    \/ ProduceParts(LiveMaxTime)
    \/ AssembleProducts(LiveMaxTime, LiveMaxFlaws)
    \/ ProductToQc(LiveMaxTime, LiveMaxFlaws)
    \/ ConditionCheck(LiveMaxTime)
    \/ ReleaseProcessed(LiveMaxTime)

NextLive ==
    \/ LiveEvents
    \/ \E T \in LiveCmdTimes, x \in LiveStrategies :
            HandleDirectStrategyCommand(T, x, TRUE, << >>, LiveMaxCmds)

SpecLive == InitLive /\ [][NextLive]_vars /\ WF_vars(LiveEvents)

\* The pool objects process p has a request waiting on, and the processes
\* that hold a slot of the object r.
WaitsOn(p) ==
    {r \in 1..Len(resources) :
        \E i \in 1..Len(resources[r].put_queue) : resources[r].put_queue[i].p = p}

HoldersOf(r) == {resources[r].users[i].p : i \in 1..Len(resources[r].users)}

Queued(p) == p <= Len(procs) /\ WaitsOn(p) # {}

\* The largest set of waiting processes each of which waits on a full object
\* whose slots are all held by processes of the set: a deadlock.
Full(r) == Len(resources[r].users) >= resources[r].capacity

RECURSIVE Blocked(_)
Blocked(S) ==
    IF S = {p \in S : \E r \in WaitsOn(p) : Full(r) /\ HoldersOf(r) \subseteq S}
    THEN S
    ELSE Blocked({p \in S : \E r \in WaitsOn(p) : Full(r) /\ HoldersOf(r) \subseteq S})

C19_NoDeadlock == Blocked({p \in 1..Len(procs) : WaitsOn(p) # {}}) = {}

\* The machine or station slot a process asks for before its worker slot.
Primary(p) == IF procs[p].f = "produce_parts" THEN "cnc_req" ELSE FirstSlot(p)

\* A process has asked for a worker only after asking for its machine or
\* station, and a producer only while it holds its machine.
C19_FixedOrder ==
    \A p \in 1..Len(procs) :
        Holds(p, "worker_req") \/ Waits(p, "worker_req")
            => /\ Holds(p, Primary(p)) \/ Waits(p, Primary(p))
               /\ procs[p].f = "produce_parts" => Holds(p, "cnc_req")

\* A request waits only on an object that is full, or whose queue is about
\* to be served by a release event.
C19_NoLostWakeup ==
    \A r \in 1..Len(resources) :
        resources[r].put_queue # << >>
            => \/ Full(r)
               \/ \E i \in 1..Len(queue) : queue[i].k = "release" /\ queue[i].res = r

\* A request leaves the queue of its object only by being granted.
C19_OnlyGranted ==
    \A r \in 1..Len(resources) : \A i \in 1..Len(resources[r].put_queue) :
        (\A j \in 1..Len(resources'[r].put_queue) :
              resources'[r].put_queue[j] # resources[r].put_queue[i])
            => \E j \in 1..Len(resources'[r].users) :
                  resources'[r].users[j] = resources[r].put_queue[i]

\* C19: the worker slot is asked for after the machine or station slot; no
\* state is a deadlock among the producers, the assemblers and the
\* inspections; a request waits only while its object is full or about to be
\* served, leaves the queue only by being granted, and every process that
\* waits for a slot in the first LiveEarly minutes (the first LiveWatched
\* processes are watched) is granted it as the events of the holders are
\* processed, on the pool objects that commands have replaced as well.
C19_DeadlockFree ==
    /\ [](C19_FixedOrder /\ C19_NoDeadlock /\ C19_NoLostWakeup)
    /\ [][C19_OnlyGranted]_vars
    /\ \A p \in 1..LiveWatched : (Queued(p) /\ NumLe(now, I(LiveEarly))) ~> ~Queued(p)

\* After the commands, a request that was waiting on a pool object a command
\* has replaced is granted: its event is scheduled, and other requests still
\* wait on a replaced object.
C19_Witness ==
    /\ \A T \in LiveCmdTimes : NumLt(I(T), now)
    /\ \E i \in 1..Len(queue) :
          /\ queue[i].k = "request"
          /\ procs[queue[i].p][queue[i].slot] \notin
                {cnc_machines, assembly_stations, qc_stations, workers}
    /\ \E r \in 1..Len(resources) :
          /\ r \notin {cnc_machines, assembly_stations, qc_stations, workers}
          /\ resources[r].put_queue # << >>

(***************************************************************************)
(* The order of the events of one instant, on the production line of       *)
(* SpecLive, where two assemblers end a batch at the same minute and each   *)
(* starts the inspections of its units.                                    *)
(***************************************************************************)
Scheduled == {j \in 1..Len(queue') : \A i \in 1..Len(queue) : queue[i] # queue'[j]}

Kept == {j \in 1..Len(queue') : \E i \in 1..Len(queue) : queue[i] = queue'[j]}

\* C21: an event scheduled for an instant is processed after every event
\* that was scheduled for that instant before it, so that the events of one
\* instant fire in the order in which they were scheduled.
C21_SchedulingOrder ==
    [][\A j \in Scheduled : \A i \in Kept : NumEq(queue'[i].t, queue'[j].t) => i < j]_vars

(***************************************************************************)
(* The command ingress: the hourly monitor, and messages on the topics the *)
(* factory subscribes to, well formed and not, at minutes 1 and 61.         *)
(***************************************************************************)
ControlMaxTime == 130
ControlMaxCmds == 3
ControlCmdTimes == {1, 61}

Val(t, v) == [t |-> t, v |-> v]

Msg(topic, decodes, dict, fields) ==
    [topic |-> topic, decodes |-> decodes, dict |-> dict, fields |-> fields,
     duration |-> << >>]

Json(topic, fields) == Msg(topic, "yes", TRUE, fields)

SimulationMessages ==
    { Json("simulation", [id |-> Val("num", 1), command |-> Val("str", c)]) :
        c \in {"pause", "Resume", "stop", "halt"} }

StrategyMessages ==
    { Json("strategy", [id |-> Val("num", 1), strategy_idx |-> Val("num", i),
                        activate |-> Val("bool", b)]) :
        i \in {StrategyIndex("PREVENTIVE_MAINTENANCE")}, b \in BOOLEAN }
    \cup
    { Json("PREVENTIVE_MAINTENANCE", [id |-> Val("num", 1), trigger |-> Val("bool", b)]) :
        b \in BOOLEAN }

MalformedMessages ==
    { Json("simulation", [id |-> Val("num", 1), command |-> Val("str", "halt")]),
      Json("simulation", [id |-> Val("num", 1)]),
      Msg("simulation", "yes", FALSE, [id |-> Val("num", 1)]),
      Msg("simulation", "not JSON", FALSE, [id |-> Val("num", 1)]),
      Msg("PREVENTIVE_MAINTENANCE", "not UTF-8", FALSE, [id |-> Val("num", 1)]),
      Json("PREVENTIVE_MAINTENANCE", [id |-> Val("num", 1)]),
      Json("PREVENTIVE_MAINTENANCE", [id |-> Val("num", 1), trigger |-> Val("num", 1)]),
      Json("NO_SUCH_STRATEGY", [id |-> Val("num", 1), trigger |-> Val("bool", TRUE)]),
      Json("strategy", [id |-> Val("num", 1), strategy_idx |-> Val("num", 99),
                        activate |-> Val("bool", TRUE)]) }

ControlMessages == SimulationMessages \cup StrategyMessages \cup MalformedMessages

InitControl == InitWith(<< "monitor_metrics" >>)

NextControl ==
    \/ MonitorMetrics(ControlMaxTime)
    \/ \E T \in ControlCmdTimes, msg \in ControlMessages :
            OnMqttMessage(T, msg, ControlMaxCmds)

SpecControl == InitControl /\ [][NextControl]_vars

MessageStep == cmds' = cmds + 1 /\ "msg" \in DOMAIN last'

\* The persistent strategy a message refers to and what it asks for, for the
\* messages of StrategyMessages.
Refers(msg) ==
    IF msg.topic = "strategy"
    THEN [strategy |-> StrategyList[msg.fields.strategy_idx.v + 1],
          activate |-> msg.fields.activate.v]
    ELSE [strategy |-> msg.topic, activate |-> msg.fields.trigger.v]

\* C22: a command that activates or deactivates a valid strategy, by index
\* on the general strategy topic or by name on the strategy's own topic, is
\* applied: the persistent strategy is active after an activation and is
\* not after a deactivation.
C22_CommandApplied ==
    [][MessageStep /\ last'.msg \in StrategyMessages
         => (Refers(last'.msg).strategy \in adaptation_strategies'
                <=> Refers(last'.msg).activate)]_vars

\* The steps in which a process of the simulation runs or the clock moves.
Advances == now' # now \/ queue' # queue \/ procs' # procs

\* C23: once a stop command is received the clock advances no further and no
\* process of the simulation runs again; and while the factory is paused
\* the clock does not advance and no process runs, until a resume command.
C23_StopAndPause ==
    [][(thread = "stopped" \/ paused) => ~Advances]_vars

\* What the simulation is made of: the ledger, the pools, the strategies,
\* the rate parameters, the paused flag, the scheduled events and the
\* processes.
simulationVars ==
    << queue, procs, stratVars, rateVars, finVars, ledgerVars, statusVars, maintVars,
       poolVars, countVars, paused >>

\* C24: an unknown simulation command, a payload without a command field, a
\* payload that is not an object, not JSON or not UTF-8, a strategy command
\* whose trigger is missing or is no boolean, and a strategy name or index
\* that matches no strategy leave the simulation as it was, its events and
\* processes included, so that it goes on.
C24_MalformedIgnored ==
    [][MessageStep /\ last'.msg \in MalformedMessages => UNCHANGED simulationVars]_vars

\* An unknown simulation command has arrived while a strategy was active and
\* the factory was paused.
C24_Witness ==
    /\ last.op = "handle_simulation_command"
    /\ last.result = "unknown"
    /\ paused
    /\ adaptation_strategies # {}

(***************************************************************************)
(* The producers' guards: the five producers, the power outages the        *)
(* disruption process starts, and the commands that make a producer wait    *)
(* for a machine (SELL_CNC_MACHINE leaves four machines for five producers) *)
(* and shorten the batches (LEAN_MANUFACTURING).                           *)
(***************************************************************************)
GuardsMaxTime == 1400
GuardsMaxCmds == 2
GuardsMaxFired == 1
GuardsCmdTimes == {1}
GuardsStrategies == { "SELL_CNC_MACHINE", "LEAN_MANUFACTURING" }
GuardsKinds == { "power_outage_event" }

InitGuards ==
    InitWith(<< "generate_disruptions" >>
             \o [i \in 1..INIT_NUM_CNC_MACHINES |-> "produce_parts"])

NextGuards ==
    \/ ProduceParts(GuardsMaxTime)
    \/ ReleaseProcessed(GuardsMaxTime)
    \/ GenerateDisruptions(GuardsMaxTime, GuardsKinds, GuardsMaxFired)
    \/ PowerOutageEvent(GuardsMaxTime)
    \/ \E T \in GuardsCmdTimes, x \in GuardsStrategies :
            HandleDirectStrategyCommand(T, x, TRUE, << >>, GuardsMaxCmds)

SpecGuards == InitGuards /\ [][NextGuards]_vars

\* C25: no producer starts a batch, debiting the raw materials, while the
\* power is out, no CNC machine is operational or no worker is available,
\* whatever happened while it waited for its CNC slot and its worker slot.
C25_GuardsRevalidated ==
    [][\A p \in Producers :
          Debits(p) /\ raw_materials' < raw_materials
              => /\ ~power_outage
                 /\ operational_cnc_machines > 0
                 /\ available_workers > 0]_vars

(***************************************************************************)
(* The order spikes: the disruption process, which may start a spike every *)
(* six hours, two spikes of one day each, and OVERTIME_POLICY.             *)
(***************************************************************************)
SpikesMaxTime == 2600
SpikesMaxCmds == 1
SpikesMaxFired == 2
SpikesCmdTimes == {1}
SpikesStrategies == { "OVERTIME_POLICY" }
SpikesKinds == { "order_spike" }

InitSpikes == InitWith(<< "generate_disruptions" >>)

NextSpikes ==
    \/ GenerateDisruptions(SpikesMaxTime, SpikesKinds, SpikesMaxFired)
    \/ OrderSpike(SpikesMaxTime)
    \/ \E T \in SpikesCmdTimes, x \in SpikesStrategies :
            HandleDirectStrategyCommand(T, x, TRUE, << >>, SpikesMaxCmds)

SpecSpikes == InitSpikes /\ [][NextSpikes]_vars

\* C26: when every order spike that started has finished, the order rate is
\* the rate in force before the first of them, the normal order rate, also
\* after two spikes that overlapped.
C26_SpikesRevert ==
    (fired > 0 /\ \A p \in 1..Len(procs) : procs[p].f = "order_spike" => procs[p].pc = "done")
        => NumEq(current_order_rate, I(NORMAL_ORDER_RATE))

\* The processes of the disruptions and of the production pipeline.
LineProcesses ==
    Kinds \cup { "generate_disruptions", "generate_orders", "order_raw_materials",
                 "produce_parts", "assemble_products", "product_to_qc" }

\* C28: no step of a disruption process or of a pipeline process writes the
\* failure chance, the processing times or the disruption chances: they are
\* written by the strategies and their timed effects only.
C28_RatesOwnedByStrategies ==
    [][cmds' = cmds /\ last'.op \in LineProcesses
         => UNCHANGED << CNC_FAILURE_CHANCE, CNC_PROCESSING_TIME, ASSEMBLY_TIME,
                         POWER_OUTAGE_CHANCE, SUPPLY_CHAIN_ISSUE_CHANCE,
                         QUALITY_ISSUE_CHANCE >>]_vars

(***************************************************************************)
(* The defect rate: the quality issues the disruption process starts, and  *)
(* QUALITY_MONITORING switched on and off before, during and after them.   *)
(***************************************************************************)
QualityMaxTime == 1300
QualityMaxCmds == 2
QualityMaxFired == 1
QualityCmdTimes == {1, 361, 1200}
QualityStrategies == { "QUALITY_MONITORING" }
QualityKinds == { "quality_control_issue" }

InitQuality == InitWith(<< "generate_disruptions" >>)

NextQuality ==
    \/ GenerateDisruptions(QualityMaxTime, QualityKinds, QualityMaxFired)
    \/ QualityControlIssue(QualityMaxTime)
    \/ \E T \in QualityCmdTimes, x \in QualityStrategies, trigger \in BOOLEAN :
            HandleDirectStrategyCommand(T, x, trigger, << >>, QualityMaxCmds)

SpecQuality == InitQuality /\ [][NextQuality]_vars

\* QUALITY_MONITORING has been active and is not any more, and the defect
\* rate is what it was before the activation.
C27_RoundTrip ==
    trip["QUALITY_MONITORING"].phase = "ended"
        => NumEq(trip["QUALITY_MONITORING"].post.defect_rate,
                 trip["QUALITY_MONITORING"].pre.defect_rate)

C27_Baseline ==
    ~has_quality_issue /\ "QUALITY_MONITORING" \notin adaptation_strategies
        => NumEq(defect_rate, F(2, 100))

\* C27: the defect rate after QUALITY_MONITORING is deactivated is the
\* defect rate before it was activated, also when a quality issue started
\* or ended while it was active; and with no quality issue and no
\* QUALITY_MONITORING active the defect rate is its baseline of 2%.
C27_DefectRateRoundTrip == C27_RoundTrip /\ C27_Baseline

(***************************************************************************)
(* The units on their way to inspection: the production line, and the      *)
(* power outages the disruption process starts.  The assemblers' second    *)
(* batches, of the parts the producers deliver at minute 675, end at        *)
(* minute 840.                                                             *)
(***************************************************************************)
UnitsMaxTime == 900
UnitsMaxFired == 1
UnitsMaxFlaws == 1
UnitsKinds == { "power_outage_event" }

InitUnits == InitWith(<< "generate_disruptions" >> \o TheLine)

NextUnits ==
    \/ GenerateDisruptions(UnitsMaxTime, UnitsKinds, UnitsMaxFired)
    \/ PowerOutageEvent(UnitsMaxTime)
    \/ ProduceParts(UnitsMaxTime)
    \/ AssembleProducts(UnitsMaxTime, UnitsMaxFlaws)
    \/ ProductToQc(UnitsMaxTime, UnitsMaxFlaws)
    \/ ConditionCheck(UnitsMaxTime)
    \/ ReleaseProcessed(UnitsMaxTime)

SpecUnits == InitUnits /\ [][NextUnits]_vars

\* The inspection processes that have ended.
Inspections == {p \in 1..Len(procs) : procs[p].f = "product_to_qc" /\ procs[p].pc = "done"}

\* C29: every unit an assembler hands to inspection is inspected exactly
\* once and classified, whatever disruption is active when it enters: the
\* inspection processes that have ended are as many as the units inspected,
\* and each inspected unit was passed into the finished products (no order
\* takes any out of them here) or rejected.
C29_EveryUnitInspected ==
    /\ Cardinality(Inspections) = total_inspected
    /\ total_inspected = finished_products + defects_found + false_positives

(***************************************************************************)
(* The waits of the production line: the line runs until the raw materials *)
(* of the start are used up, and the disruption process may start one      *)
(* power outage.                                                           *)
(***************************************************************************)
PollsMaxTime == 4100
PollsMaxFired == 1
PollsMaxFlaws == 0
PollsKinds == { "power_outage_event" }

InitPolls == InitWith(<< "generate_disruptions" >> \o TheLine)

NextPolls ==
    \/ GenerateDisruptions(PollsMaxTime, PollsKinds, PollsMaxFired)
    \/ PowerOutageEvent(PollsMaxTime)
    \/ ProduceParts(PollsMaxTime)
    \/ AssembleProducts(PollsMaxTime, PollsMaxFlaws)
    \/ ProductToQc(PollsMaxTime, PollsMaxFlaws)
    \/ ConditionCheck(PollsMaxTime)
    \/ ReleaseProcessed(PollsMaxTime)

SpecPolls == InitPolls /\ [][NextPolls]_vars

\* Process p of function f runs in this step.
Runs(p, f) ==
    /\ queue # << >>
    /\ queue[1].p = p
    /\ queue[1].k # "release"
    /\ procs[p].f = f
    /\ last' = [op |-> f, p |-> p]
    /\ now' = queue[1].t

\* The step leaves process p waiting to look again, delay minutes from now.
RePolls(p, delay) ==
    /\ procs'[p].pc = "poll"
    /\ \E j \in Scheduled :
          queue'[j] = [t |-> NumAdd(now', I(delay)), pr |-> NORMAL, k |-> "timeout", p |-> p]

\* After the step process p waits: for a time that has yet to come, or for
\* a slot; an assembler whose batch is empty assembles for no time, and then
\* looks again.
StillWaits(p) ==
    \/ \E j \in Scheduled :
          queue'[j].p = p /\ queue'[j].k = "timeout" /\ NumLt(now', queue'[j].t)
    \/ procs'[p].pc \in {"cnc_req", "worker_req", "acquire"}
    \/ procs'[p].pc = "assembling" /\ procs'[p].batch_size = 0

\* A producer that finds nothing to take after it has acquired its slots
\* waits 10 minutes before it looks again, an assembler that has assembled
\* nothing waits too, and so does every process of the line after each of
\* its steps: none goes round its loop at one instant.
C30_NoSpin ==
    \A p \in 1..Len(procs) :
        /\ Runs(p, "produce_parts") \/ Runs(p, "assemble_products") => StillWaits(p)
        /\ Runs(p, "produce_parts") /\ procs[p].pc = "worker_req" /\ raw_materials <= 0
              => RePolls(p, 10)
        /\ Runs(p, "assemble_products") /\ procs[p].pc = "assembling"
              /\ procs[p].batch_size = 0 => procs'[p].pc = "poll"

\* C30 as stated: a producer or assembler that finds no eligible work waits
\* a fixed time before it looks again, 10 minutes after a producer's checks
\* and after an assembler's check of the parts, 60 minutes after an
\* assembler's check of the workers, and no process of the line goes round
\* its loop without the clock advancing.
C30_RePollDelays ==
    [][/\ \A p \in 1..Len(procs) :
            /\ Runs(p, "produce_parts") /\ procs'[p].pc = "poll" => RePolls(p, 10)
            /\ Runs(p, "assemble_products") /\ procs'[p].pc = "poll" =>
                  IF parts_inventory' < PARTS_PER_PRODUCT
                  THEN RePolls(p, 10) ELSE RePolls(p, 60)
       /\ C30_NoSpin]_vars

\* C30, as the code has it: an assembler waits 10 minutes only when the power is out;
\* after its check of the parts, as after its checks of the workers, it
\* waits 60 minutes.  A producer waits 10 minutes after each of its checks.
C30_RePollDelaysOfTheCode ==
    [][/\ \A p \in 1..Len(procs) :
            /\ Runs(p, "produce_parts") /\ procs'[p].pc = "poll" => RePolls(p, 10)
            /\ Runs(p, "assemble_products") /\ procs'[p].pc = "poll" =>
                  IF power_outage' THEN RePolls(p, 10) ELSE RePolls(p, 60)
       /\ C30_NoSpin]_vars

\* A producer has found its batch empty after acquiring its slots, has let
\* them go and waits 10 minutes, while an assembler waits for more than 10
\* minutes to look again: no outage has happened and the workers are more
\* than the line can ask for, so that it waits after its check of the parts.
C30_Witness ==
    /\ last.op = "produce_parts"
    /\ procs[last.p].pc = "poll"
    /\ procs[last.p].batch_size <= 0
    /\ raw_materials <= 0
    /\ \E i \in 1..Len(queue) : queue[i].k = "release" /\ queue[i].p = last.p
    /\ \E i \in 1..Len(queue) :
          queue[i] = [t |-> NumAdd(now, I(10)), pr |-> NORMAL, k |-> "timeout", p |-> last.p]
    /\ fired = 0
    /\ available_workers > INIT_NUM_CNC_MACHINES + INIT_NUM_ASSEMBLY_STATIONS
    /\ \E i \in 1..Len(queue) :
          /\ procs[queue[i].p].f = "assemble_products"
          /\ procs[queue[i].p].pc = "poll"
          /\ queue[i].k = "timeout"
          /\ NumLt(NumAdd(now, I(10)), queue[i].t)

(***************************************************************************)
(* The batches of the assemblers: the production line, and the quality     *)
(* issues the disruption process starts, under which an assembler may lose  *)
(* part of a batch.                                                        *)
(***************************************************************************)
BatchesMaxTime == 1000
BatchesMaxFired == 1
BatchesMaxFlaws == 1
BatchesKinds == { "quality_control_issue" }

InitBatches == InitWith(<< "generate_disruptions" >> \o TheLine)

NextBatches ==
    \/ GenerateDisruptions(BatchesMaxTime, BatchesKinds, BatchesMaxFired)
    \/ QualityControlIssue(BatchesMaxTime)
    \/ ProduceParts(BatchesMaxTime)
    \/ AssembleProducts(BatchesMaxTime, BatchesMaxFlaws)
    \/ ProductToQc(BatchesMaxTime, BatchesMaxFlaws)
    \/ ConditionCheck(BatchesMaxTime)
    \/ ReleaseProcessed(BatchesMaxTime)

SpecBatches == InitBatches /\ [][NextBatches]_vars

\* The inspections a step starts.
Handed == {q \in Len(procs) + 1..Len(procs') : procs'[q].f = "product_to_qc"}

\* C31: an assembler that holds its station and its worker takes
\* b = min(5, parts_inventory div PARTS_PER_PRODUCT) of the inventory as it
\* is then, debiting PARTS_PER_PRODUCT * b parts in that step, so that the
\* inventory is never negative and b is 0 when another assembler took the
\* parts first; when the assembly is over it starts b inspections, or
\* floor(0.7 * b) when a quality issue spoiled the batch.
C31_AssemblyBatch ==
    [][\A p \in 1..Len(procs) : Runs(p, "assemble_products") =>
          /\ procs[p].pc = "acquire" =>
                /\ procs'[p].batch_size = Min(5, parts_inventory \div PARTS_PER_PRODUCT)
                /\ procs'[p].batch_size >= 0
                /\ parts_inventory' = parts_inventory - PARTS_PER_PRODUCT * procs'[p].batch_size
                /\ parts_inventory' >= 0
                /\ Handed = {}
          /\ procs[p].pc = "assembling" =>
                /\ parts_inventory' = parts_inventory
                /\ Len(procs') = Len(procs) + Cardinality(Handed)
                /\ Cardinality(Handed) =
                      IF has_quality_issue /\ flaws' # flaws
                      THEN (7 * procs[p].batch_size) \div 10
                      ELSE procs[p].batch_size]_vars

\* An assembler has ended a batch of 5 that a quality issue spoiled and has
\* started 3 inspections.
C31_Witness ==
    /\ last.op = "assemble_products"
    /\ has_quality_issue
    /\ flaws = 1
    /\ \E p \in 1..Len(procs) :
          /\ procs[p].f = "assemble_products"
          /\ procs[p].batch_size = 5
          /\ last.p = p
    /\ Cardinality({q \in 1..Len(procs) :
                       procs[q].f = "product_to_qc" /\ procs[q].pc = "start"}) = 3

(***************************************************************************)
(* The clock: the hourly monitor and the publisher of the factory's data,  *)
(* the two processes that wait at fixed periods.                           *)
(***************************************************************************)
ClockMaxTime == 65

InitClock == InitWith(<< "monitor_metrics", "publish_mqtt_updates" >>)

NextClock ==
    \/ MonitorMetrics(ClockMaxTime)
    \/ PublishMqttUpdates(ClockMaxTime)

SpecClock == InitClock /\ [][NextClock]_vars

\* The number is a whole number.
Whole(x) == NumEq(x, I(NumInt(x)))

\* C32: the simulated time is a whole number of minutes that never
\* decreases: every wait a process schedules is for a whole number of
\* minutes that is not negative, and so the clock takes whole values only.
C32_IntegerClock ==
    /\ [](Whole(now) /\ \A i \in 1..Len(queue) : Whole(queue[i].t))
    /\ [][NumLe(now, now')]_vars

\* C33: between the steps of the processes, whenever none of them is inside
\* a step, the finished products and the backlog are not both positive:
\* min(finished_products, backlog) = 0.
C33_EagerFulfilment ==
    MidSpan = {} => Min(finished_products, backlog) = 0

\* C34: every order recorded is fulfilled, pending or cancelled:
\* total_orders = fulfilled_orders + backlog + cancelled_orders, so that no
\* more orders are fulfilled than were recorded, whatever orders, shipments,
\* cancellations and order spikes happen and whatever strategies are active.
C34_OrderConservation ==
    /\ total_orders = fulfilled_orders + backlog + cancelled_orders
    /\ fulfilled_orders <= total_orders

\* C35: the CNC machines running are never fewer than none and never more
\* than the CNC machines the factory has, also when a machine is bought or
\* sold or the maintenance is expedited while a repair is pending.
C35_OperationalWithinMachines ==
    /\ 0 <= operational_cnc_machines
    /\ operational_cnc_machines <= NUM_CNC_MACHINES

(***************************************************************************)
(* The workforce: the worker absences the disruption process starts, which *)
(* may overlap, and the commands that hire and lay off workers.            *)
(***************************************************************************)
AbsenceMaxTime == 2600
AbsenceMaxCmds == 1
AbsenceMaxFired == 2
AbsenceCmdTimes == {361, 1081}
AbsenceStrategies == { "REDUCE_WORKFORCE", "HIRE_WORKERS" }
AbsenceKinds == { "worker_absence" }

InitAbsence == InitWith(<< "monitor_metrics", "generate_disruptions" >>)

NextAbsence ==
    \/ MonitorMetrics(AbsenceMaxTime)
    \/ GenerateDisruptions(AbsenceMaxTime, AbsenceKinds, AbsenceMaxFired)
    \/ WorkerAbsence(AbsenceMaxTime)
    \/ \E T \in AbsenceCmdTimes, x \in AbsenceStrategies :
            HandleDirectStrategyCommand(T, x, TRUE, << >>, AbsenceMaxCmds)

SpecAbsence == InitAbsence /\ [][NextAbsence]_vars

\* C36: the workers available are never fewer than none and never more than
\* the workforce, also when an absence ends after workers were laid off
\* during it and when absences overlap.
C36_AvailableWithinWorkforce ==
    /\ 0 <= available_workers
    /\ available_workers <= NUM_WORKERS

(***************************************************************************)
(* The pools under disruption: the production line, and the CNC failures   *)
(* and worker absences the disruption process starts.                      *)
(***************************************************************************)
HeldMaxTime == 800
HeldMaxFired == 1
HeldMaxFlaws == 0
HeldKinds == { "cnc_machine_failure", "worker_absence" }

InitHeld == InitWith(<< "generate_disruptions" >> \o TheLine)

NextHeld ==
    \/ GenerateDisruptions(HeldMaxTime, HeldKinds, HeldMaxFired)
    \/ CncMachineFailure(HeldMaxTime)
    \/ WorkerAbsence(HeldMaxTime)
    \/ ProduceParts(HeldMaxTime)
    \/ AssembleProducts(HeldMaxTime, HeldMaxFlaws)
    \/ ProductToQc(HeldMaxTime, HeldMaxFlaws)
    \/ ConditionCheck(HeldMaxTime)
    \/ ReleaseProcessed(HeldMaxTime)

SpecHeld == InitHeld /\ [][NextHeld]_vars

\* C37: the worker slots held are never more than the workers available and
\* the CNC slots held never more than the CNC machines running, so that a
\* worker absence or a CNC failure lowers the number of processes that can
\* acquire a worker or a machine.
C37_DisruptionsConstrainPools ==
    /\ Held("workers") <= available_workers
    /\ Held("cnc_machines") <= operational_cnc_machines

\* C38: a power outage keeps the power out for the whole time drawn for it
\* unless INSTALL_BACKUP_GENERATOR is executed during it: the power comes
\* back only by that command or when the time of the one outage that is
\* active is up, never by the timer of an earlier outage while a later one
\* is active, and no two power outages are active at once.
C38_OutageLastsItsTime ==
    /\ [](Cardinality(Active("power_outage_event")) <= 1)
    /\ [][power_outage /\ ~power_outage' =>
             \/ CommandStep /\ CommandStrategy = "INSTALL_BACKUP_GENERATOR"
             \/ /\ last'.op = "power_outage_event"
                /\ \A p \in 1..Len(procs') :
                      procs'[p].f = "power_outage_event" => procs'[p].pc = "done"]_vars

\* The command is refused: the last CNC machine is not sold, and no worker
\* is laid off at the minimum of 3.
Rejected ==
    \/ Executes("SELL_CNC_MACHINE") /\ NUM_CNC_MACHINES <= 1
    \/ Executes("REDUCE_WORKFORCE") /\ NUM_WORKERS <= 3

\* C39: a one-shot action that is refused, SELL_CNC_MACHINE with one
\* machine left or REDUCE_WORKFORCE at 3 workers, leaves the finances as
\* they were: no implementation cost is charged for it.
C39_RejectedIsFree ==
    [][Rejected => /\ NumEq(costs', costs)
                   /\ NumEq(revenue', revenue)
                   /\ UNCHANGED << NUM_CNC_MACHINES, NUM_WORKERS >>]_vars

(***************************************************************************)
(* The liquidation of the stock: the production line, with no order        *)
(* recorded, and the commands that activate and deactivate                 *)
(* INVENTORY_LIQUIDATION, before the first products are finished or after. *)
(***************************************************************************)
StockMaxTime == 1000
StockMaxCmds == 2
StockMaxFlaws == 0
StockCmdTimes == {1, 200}

InitStock == InitWith(TheLine)

NextStock ==
    \/ ProduceParts(StockMaxTime)
    \/ AssembleProducts(StockMaxTime, StockMaxFlaws)
    \/ ProductToQc(StockMaxTime, StockMaxFlaws)
    \/ ConditionCheck(StockMaxTime)
    \/ ReleaseProcessed(StockMaxTime)
    \/ LiquidateInventory(StockMaxTime)
    \/ \E T \in StockCmdTimes, trigger \in BOOLEAN :
            HandleDirectStrategyCommand(T, "INVENTORY_LIQUIDATION", trigger, << >>,
                                        StockMaxCmds)

SpecStock == InitStock /\ [][NextStock]_vars

\* The liquidation checks that are to come: the processes of
\* liquidate_inventory that have not returned, each with its event within
\* 12 hours from now.
ChecksToCome ==
    {p \in 1..Len(procs) :
        /\ procs[p].f = "liquidate_inventory"
        /\ procs[p].pc # "done"
        /\ \E i \in 1..Len(queue) :
              queue[i].p = p /\ NumLe(queue[i].t, NumAdd(now, I(12 * 60)))}

\* A liquidation check runs in this step.
Checks == last'.op = "liquidate_inventory" /\ finished_products' # finished_products

\* C40: while INVENTORY_LIQUIDATION is active a liquidation check is to
\* come within 12 hours, from the activation until the deactivation, so
\* that the finished products in excess of backlog + 10, whenever they
\* appear, are liquidated; and each check leaves backlog + 10 finished
\* products in stock, or all of them if they are fewer.
C40_LiquidationRepeats ==
    /\ []("INVENTORY_LIQUIDATION" \in adaptation_strategies => ChecksToCome # {})
    /\ [][Checks => finished_products' = Min(finished_products, backlog + 10)]_vars

=============================================================================
